---- MODULE Spec2Model ----
(***************************************************************************)
(* A model of build.rs of ncurses-rs: the build script that discovers the  *)
(* ncurses libraries (pkg-config, then link trials), probes chtype,        *)
(* generates the constants files and compiles the wrap archive; and of the *)
(* MyCompilerCommand extension trait it runs its compiler commands with.   *)
(*                                                                         *)
(* Text is a TLA+ string where the script only passes it along, and a      *)
(* sequence of bytes (0..255) where the script looks inside it: an         *)
(* OsString handed to Command is a sequence of bytes.                      *)
(***************************************************************************)
EXTENDS Integers, Sequences, FiniteSets, TLC

\* ------------------------------------------------------------------------
\* Bounds of the model
\* ------------------------------------------------------------------------

\* most arguments a command of the trait's own specification is given
MaxArgs == 2

\* ------------------------------------------------------------------------
\* State
\* ------------------------------------------------------------------------

\* main of the build script
VARIABLES
    world,        \* what the script runs in: features, environment variables,
                  \* pkg-config's database, what links, the ncurses headers
    pc,           \* where main is
    each,         \* the index (1-based) of the tinfo name the link trial is at
    out,          \* the lines on stdout, which cargo reads
    ncurses_lib,  \* main's ncurses_lib: <<>> (None) or <<Library>>
    lib_name,     \* main's lib_name, "" before it is set
    probes,       \* every find_library call: its names, what it asked, its result
    procs,        \* every process the script ran or tried to run
    scratch,      \* the transient files of OUT_DIR
    generated,    \* the generated .rs files of OUT_DIR: name -> content
    panic         \* the panic that ended the script, or NoPanic

\* a Command of the trait's own specification
VARIABLES
    current,  \* the Command being built
    given,    \* the arguments as the caller passed them, and through what
    ran       \* the call that ended the command's life, and its result

mainVars ==
    <<world, pc, each, out, ncurses_lib, lib_name, probes, procs, scratch,
      generated, panic>>

guardVars == <<current, given, ran>>

vars == <<mainVars, guardVars>>

\* ------------------------------------------------------------------------
\* Text as bytes
\* ------------------------------------------------------------------------

\* The UTF-8 bytes (str::as_bytes) of every text the script builds a command
\* argument from or searches in.
Utf8 ==
    ("ncursesw5" :> <<110,99,117,114,115,101,115,119,53>>) @@
    ("ncursesw" :> <<110,99,117,114,115,101,115,119>>) @@
    ("ncurses5" :> <<110,99,117,114,115,101,115,53>>) @@
    ("ncurses" :> <<110,99,117,114,115,101,115>>) @@
    ("menuw5" :> <<109,101,110,117,119,53>>) @@
    ("menuw" :> <<109,101,110,117,119>>) @@
    ("menu5" :> <<109,101,110,117,53>>) @@
    ("menu" :> <<109,101,110,117>>) @@
    ("panelw5" :> <<112,97,110,101,108,119,53>>) @@
    ("panelw" :> <<112,97,110,101,108,119>>) @@
    ("panel5" :> <<112,97,110,101,108,53>>) @@
    ("panel" :> <<112,97,110,101,108>>) @@
    ("tinfow5" :> <<116,105,110,102,111,119,53>>) @@
    ("tinfow" :> <<116,105,110,102,111,119>>) @@
    ("tinfo5" :> <<116,105,110,102,111,53>>) @@
    ("tinfo" :> <<116,105,110,102,111>>) @@
    ("curses" :> <<99,117,114,115,101,115>>) @@
    ("pdcurses" :> <<112,100,99,117,114,115,101,115>>) @@
    ("-o" :> <<45,111>>) @@
    ("-l" :> <<45,108>>) @@
    ("-L" :> <<45,76>>) @@
    ("/" :> <<47>>) @@
    ("/out" :> <<47,111,117,116>>) @@
    ("/usr/lib" :> <<47,117,115,114,47,108,105,98>>) @@
    ("cc" :> <<99,99>>) @@
    ("try_link_with_" :> <<116,114,121,95,108,105,110,107,95,119,105,116,104,95>>) @@
    (".c" :> <<46,99>>) @@
    ("chtype_size.c" :> <<99,104,116,121,112,101,95,115,105,122,101,46,99>>) @@
    ("chtype_size" :> <<99,104,116,121,112,101,95,115,105,122,101>>) @@
    ("src/genconstants.c" :> <<115,114,99,47,103,101,110,99,111,110,115,116,97,110,116,115,46,99>>) @@
    ("genconstants" :> <<103,101,110,99,111,110,115,116,97,110,116,115>>) @@
    ("src/menu/genconstants.c" :> <<115,114,99,47,109,101,110,117,47,103,101,110,99,111,110,115,116,97,110,116,115,46,99>>) @@
    ("genmenuconstants" :> <<103,101,110,109,101,110,117,99,111,110,115,116,97,110,116,115>>) @@
    ("-I" :> <<45,73>>) @@
    ("/usr/include" :> <<47,117,115,114,47,105,110,99,108,117,100,101>>) @@
    ("raw_constants.rs" :> <<114,97,119,95,99,111,110,115,116,97,110,116,115,46,114,115>>) @@
    ("menu_constants.rs" :> <<109,101,110,117,95,99,111,110,115,116,97,110,116,115,46,114,115>>)

\* A text the script assembles (format!, Path::join) is the sequence of its
\* pieces; its bytes are the pieces' bytes one after the other.
RECURSIVE AsBytes(_)
AsBytes(pieces) ==
    IF pieces = <<>> THEN <<>>
    ELSE Utf8[Head(pieces)] \o AsBytes(Tail(pieces))

\* str::contains: pat occurs in s as a run of consecutive bytes
contains(s, pat) ==
    \E i \in 0..(Len(s) - Len(pat)) :
        \A j \in 1..Len(pat) : s[i + j] = pat[j]

\* OsStr::to_str is Some exactly for valid UTF-8 (from_utf8's validation)
RECURSIVE IsUtf8From(_, _)
IsUtf8From(b, i) ==
    LET n == Len(b)
        c == b[i]
        cont(j) == j <= n /\ b[j] >= 128 /\ b[j] <= 191
        rest(k) == IsUtf8From(b, i + k)
    IN  IF i > n THEN TRUE
        ELSE IF c < 128 THEN rest(1)
        ELSE IF c >= 194 /\ c <= 223 THEN cont(i + 1) /\ rest(2)
        ELSE IF c = 224 THEN cont(i + 1) /\ b[i + 1] >= 160 /\ cont(i + 2) /\ rest(3)
        ELSE IF c = 237 THEN cont(i + 1) /\ b[i + 1] <= 159 /\ cont(i + 2) /\ rest(3)
        ELSE IF c >= 225 /\ c <= 239 THEN cont(i + 1) /\ cont(i + 2) /\ rest(3)
        ELSE IF c = 240
        THEN cont(i + 1) /\ b[i + 1] >= 144 /\ cont(i + 2) /\ cont(i + 3) /\ rest(4)
        ELSE IF c = 244
        THEN cont(i + 1) /\ b[i + 1] <= 143 /\ cont(i + 2) /\ cont(i + 3) /\ rest(4)
        ELSE IF c >= 241 /\ c <= 243
        THEN cont(i + 1) /\ cont(i + 2) /\ cont(i + 3) /\ rest(4)
        ELSE FALSE

IsUtf8(b) == IsUtf8From(b, 1)

\* ------------------------------------------------------------------------
\* MyCompilerCommand: the extension trait of std::process::Command
\* ------------------------------------------------------------------------

\* "<string-with-nul>"
REPLACEMENT_FOR_ARG_THAT_HAS_NUL ==
    <<60,115,116,114,105,110,103,45,119,105,116,104,45,110,117,108,62>>

NoPanic == [kind |-> "none"]

has_null_byte(arg) == \E i \in 1..Len(arg) : arg[i] = 0

\* Command::new
Command_new(program) == [program |-> program, args |-> <<>>, saw_nul |-> FALSE]

\* Command::arg: an argument with a NUL in it is replaced as a whole, and
\* the command remembers that it saw one
Command_arg(cmd, arg) ==
    IF has_null_byte(arg)
    THEN [cmd EXCEPT !.args = Append(@, REPLACEMENT_FOR_ARG_THAT_HAS_NUL),
                     !.saw_nul = TRUE]
    ELSE [cmd EXCEPT !.args = Append(@, arg)]

\* What the operating system answers when a command is started
SpawnEnoent == [t |-> "err", code |-> 2, reason |-> "No such file or directory (os error 2)"]
Exited(n) == [t |-> "exit", code |-> n, reason |-> ""]
Signaled == [t |-> "signal", code |-> -1, reason |-> ""]
NotRun == [t |-> "none", code |-> -1, reason |-> ""]

\* Command::status: a command that saw a NUL is refused before any process
\* is created; otherwise the process is spawned and the answer is the
\* operating system's. attempted: a spawn was attempted.
Command_status(cmd, os) ==
    IF cmd.saw_nul
    THEN [attempted |-> FALSE,
          st |-> [t |-> "err", code |-> -1, reason |-> "nul byte found in provided data"]]
    ELSE [attempted |-> TRUE, st |-> os]

\* ExitStatus::success
success(st) == st.t = "exit" /\ st.code = 0

\* an arg_checked without its check: the argument goes to Command::arg as
\* it is
arg_passed_on(cmd, arg) == [panic |-> NoPanic, cmd |-> Command_arg(cmd, arg)]

arg_checked(cmd, arg) ==
    IF has_null_byte(arg)
    THEN [panic |-> [kind |-> "found_arg_with_nul", arg |-> arg], cmd |-> cmd]
    ELSE [panic |-> NoPanic, cmd |-> Command_arg(cmd, arg)]

RECURSIVE args_checked(_, _)
args_checked(cmd, args) ==
    IF args = <<>> THEN [panic |-> NoPanic, cmd |-> cmd]
    ELSE LET r == arg_checked(cmd, Head(args))
         IN  IF r.panic # NoPanic THEN r ELSE args_checked(r.cmd, Tail(args))

\* a checked call chained on the result of an earlier one: a panic ends the chain
then_arg_checked(r, arg) == IF r.panic # NoPanic THEN r ELSE arg_checked(r.cmd, arg)
then_args_checked(r, args) == IF r.panic # NoPanic THEN r ELSE args_checked(r.cmd, args)

\* the 1-based positions of the arguments that are valid text equal to the
\* replacement
ReplacedPositions(cmd) ==
    {i \in 1..Len(cmd.args) :
        IsUtf8(cmd.args[i]) /\ cmd.args[i] = REPLACEMENT_FOR_ARG_THAT_HAS_NUL}

Min(S) == CHOOSE x \in S : \A y \in S : x <= y

\* an assert_no_nul_in_args that reports the count of enumerate() as it is
assert_no_nul_in_args_from_zero(cmd) ==
    IF ReplacedPositions(cmd) # {}
    THEN [kind |-> "found_arg_number_with_nul",
          number |-> Min(ReplacedPositions(cmd)) - 1]
    ELSE NoPanic

assert_no_nul_in_args(cmd) ==
    IF ReplacedPositions(cmd) # {}
    THEN [kind |-> "found_arg_number_with_nul", number |-> Min(ReplacedPositions(cmd))]
    ELSE NoPanic

\* the digits of {:02x}: lower-case
HexDigitLowerCase(d) == IF d < 10 THEN 48 + d ELSE 87 + d

HexDigit(d) == IF d < 10 THEN 48 + d ELSE 55 + d

\* "\\x{:02X}"
HexEscape(byte) == <<92, 120, HexDigit(byte \div 16), HexDigit(byte % 16)>>

RECURSIVE AsciiAndHex(_)
AsciiAndHex(b) ==
    IF b = <<>> THEN <<>>
    ELSE (IF Head(b) < 128 THEN <<Head(b)>> ELSE HexEscape(Head(b)))
         \o AsciiAndHex(Tail(b))

\* how one argument is shown
ShownArg(arg) == IF IsUtf8(arg) THEN arg ELSE AsciiAndHex(arg)

RECURSIVE JoinShown(_)
JoinShown(args) ==
    IF args = <<>> THEN <<>>
    ELSE ShownArg(args[1])
         \o (IF Len(args) = 1 THEN <<>> ELSE <<34, 32, 34>> \o JoinShown(Tail(args)))

get_what_will_run(cmd) ==
    IF ~IsUtf8(cmd.program)
    THEN [panic |-> [kind |-> "executable_not_valid_string", program |-> cmd.program],
          program |-> <<>>, how_many_args |-> 0, formatted_args |-> <<>>]
    ELSE [panic |-> NoPanic,
          program |-> cmd.program,
          how_many_args |-> Len(cmd.args),
          formatted_args |-> <<34>> \o JoinShown(cmd.args) \o <<34>>]

\* the result of running a command: the panic (if any), the exit status
\* returned, the lines written to stderr, and whether a spawn was attempted
RunResult(pnc, st, logged, attempted) ==
    [panic |-> pnc, st |-> st, logged |-> logged, attempted |-> attempted]

\* a closure whose message leaves the error of status() out
failed_to_run_without_reason(s, w) ==
    IF w.panic # NoPanic THEN RunResult(w.panic, NotRun, <<>>, s.attempted)
    ELSE RunResult([kind |-> "failed_to_run", program |-> w.program,
                    how_many_args |-> w.how_many_args,
                    formatted_args |-> w.formatted_args,
                    reason |-> ""],
                   NotRun, <<>>, s.attempted)

\* the closure status_or_panic handles the error of status() with: w is
\* what get_what_will_run returned to it
failed_to_run(s, w) ==
    IF w.panic # NoPanic THEN RunResult(w.panic, NotRun, <<>>, s.attempted)
    ELSE RunResult([kind |-> "failed_to_run", program |-> w.program,
                    how_many_args |-> w.how_many_args,
                    formatted_args |-> w.formatted_args,
                    reason |-> s.st.reason],
                   NotRun, <<>>, s.attempted)

\* Result::unwrap_or_else on what status() returned
unwrap_or_else(s, cmd) ==
    IF s.st.t # "err" THEN RunResult(NoPanic, s.st, <<>>, s.attempted)
    ELSE failed_to_run(s, get_what_will_run(cmd))

\* a status_or_panic that also takes a status that is not a success for a
\* failure to run
status_or_panic_unless_success(cmd, os) ==
    IF Command_status(cmd, os).st.t # "err" /\ ~success(Command_status(cmd, os).st)
    THEN RunResult([kind |-> "compiler_failed", how |-> "with exit code",
                    code |-> Command_status(cmd, os).st.code],
                   Command_status(cmd, os).st, <<>>, TRUE)
    ELSE unwrap_or_else(Command_status(cmd, os), cmd)

status_or_panic(cmd, os) == unwrap_or_else(Command_status(cmd, os), cmd)

\* the line show_what_will_run writes to stderr
WillRunLine(w) ==
    [kind |-> "next_attempting", program |-> w.program,
     how_many_args |-> w.how_many_args, formatted_args |-> w.formatted_args]

\* a show_what_will_run that computes the line and does not write it
eprintln_left_out(w) == [panic |-> w.panic, logged |-> <<>>]

\* eprintln! of what get_what_will_run returned
eprintln(w) ==
    IF w.panic # NoPanic THEN [panic |-> w.panic, logged |-> <<>>]
    ELSE [panic |-> NoPanic, logged |-> <<WillRunLine(w)>>]

show_what_will_run(cmd) == eprintln(get_what_will_run(cmd))

\* a chain that ends without the test of exit_status.success(): the status
\* is returned whatever it is
exit_status_returned(shown, nul, r) ==
    IF shown.panic # NoPanic THEN RunResult(shown.panic, NotRun, <<>>, FALSE)
    ELSE IF nul # NoPanic THEN RunResult(nul, NotRun, shown.logged, FALSE)
    ELSE IF r.panic # NoPanic THEN RunResult(r.panic, NotRun, shown.logged, r.attempted)
    ELSE RunResult(NoPanic, r.st, shown.logged, r.attempted)

\* a chain that does not ask the status for its code: every status that is
\* not a success is reported as a termination by a signal
exit_status_without_code(shown, nul, r) ==
    IF shown.panic # NoPanic THEN RunResult(shown.panic, NotRun, <<>>, FALSE)
    ELSE IF nul # NoPanic THEN RunResult(nul, NotRun, shown.logged, FALSE)
    ELSE IF r.panic # NoPanic THEN RunResult(r.panic, NotRun, shown.logged, r.attempted)
    ELSE IF success(r.st) THEN RunResult(NoPanic, r.st, shown.logged, r.attempted)
    ELSE RunResult([kind |-> "compiler_failed",
                    how |-> "was terminated by a signal",
                    code |-> r.st.code],
                   r.st, shown.logged, r.attempted)

\* the chain of success_or_panic and what follows it: shown, nul and r are
\* what show_what_will_run, assert_no_nul_in_args and status_or_panic did,
\* each reached only if the one before it did not panic
exit_status_success(shown, nul, r) ==
    IF shown.panic # NoPanic THEN RunResult(shown.panic, NotRun, <<>>, FALSE)
    ELSE IF nul # NoPanic THEN RunResult(nul, NotRun, shown.logged, FALSE)
    ELSE IF r.panic # NoPanic THEN RunResult(r.panic, NotRun, shown.logged, r.attempted)
    ELSE IF success(r.st) THEN RunResult(NoPanic, r.st, shown.logged, r.attempted)
    ELSE RunResult([kind |-> "compiler_failed",
                    how |-> IF r.st.t = "exit" THEN "with exit code"
                            ELSE "was terminated by a signal",
                    code |-> r.st.code],
                   r.st, shown.logged, r.attempted)

success_or_panic(cmd, os) ==
    exit_status_success(show_what_will_run(cmd), assert_no_nul_in_args(cmd),
                        status_or_panic(cmd, os))

\* ------------------------------------------------------------------------
\* The trait on its own: a command is built and run
\* ------------------------------------------------------------------------


\* "sh", and a path that is not valid UTF-8
Programs == {<<115, 104>>, <<116, 255>>}

\* "a", "a\0b", "\0", a byte that is not UTF-8, the heart of "ar<heart>g1",
\* the replacement text itself, and letters around a byte that is not UTF-8
\* (as the "my\xffarg3" of the tests)
ArgValues ==
    {<<97>>, <<97, 0, 98>>, <<0>>, <<255>>, <<226, 153, 165>>,
     REPLACEMENT_FOR_ARG_THAT_HAS_NUL, <<109, 255, 97>>}

ArgLists == UNION {[1..n -> ArgValues] : n \in 1..MaxArgs}

OsAnswers == {SpawnEnoent, Exited(0), Exited(43), Signaled}

NotRan == [entry |-> "none", panic |-> NoPanic, st |-> NotRun, logged |-> <<>>,
           attempted |-> FALSE]

Given(args, how) == [i \in 1..Len(args) |-> [arg |-> args[i], how |-> how]]

GuardInit ==
    /\ current \in {Command_new(p) : p \in Programs}
    /\ given = <<>>
    /\ ran = NotRan

CanAdd(n) == ran.entry = "none" /\ Len(given) + n <= MaxArgs

\* command.arg(a): the unchecked primitive
CmdArg ==
    \E a \in ArgValues :
        /\ CanAdd(1)
        /\ current' = Command_arg(current, a)
        /\ given' = given \o Given(<<a>>, "arg")
        /\ UNCHANGED <<ran, mainVars>>

\* command.arg_checked(a)
CmdArgChecked ==
    \E a \in ArgValues :
        LET r == arg_checked(current, a)
        IN  /\ CanAdd(1)
            /\ current' = r.cmd
            /\ given' = given \o Given(<<a>>, "arg_checked")
            /\ ran' = IF r.panic = NoPanic THEN ran
                      ELSE [NotRan EXCEPT !.entry = "arg_checked", !.panic = r.panic]
            /\ UNCHANGED mainVars

\* command.args_checked(as)
CmdArgsChecked ==
    \E as \in ArgLists :
        LET r == args_checked(current, as)
        IN  /\ CanAdd(Len(as))
            /\ current' = r.cmd
            /\ given' = given \o Given(as, "args_checked")
            /\ ran' = IF r.panic = NoPanic THEN ran
                      ELSE [NotRan EXCEPT !.entry = "args_checked", !.panic = r.panic]
            /\ UNCHANGED mainVars

Ran(entry, r) ==
    [entry |-> entry, panic |-> r.panic, st |-> r.st, logged |-> r.logged,
     attempted |-> r.attempted]

\* command.status_or_panic()
CmdStatusOrPanic ==
    \E os \in OsAnswers :
        /\ ran.entry = "none"
        /\ ran' = Ran("status_or_panic", status_or_panic(current, os))
        /\ UNCHANGED <<current, given, mainVars>>

\* command.success_or_panic()
CmdSuccessOrPanic ==
    \E os \in OsAnswers :
        /\ ran.entry = "none"
        /\ ran' = Ran("success_or_panic", success_or_panic(current, os))
        /\ UNCHANGED <<current, given, mainVars>>

\* command.assert_no_nul_in_args(), called on its own
CmdAssertNoNulInArgs ==
    /\ ran.entry = "none"
    /\ ran' = [NotRan EXCEPT !.entry = "assert_no_nul_in_args",
                             !.panic = assert_no_nul_in_args(current)]
    /\ UNCHANGED <<current, given, mainVars>>

CommandNext ==
    \/ CmdArg
    \/ CmdArgChecked
    \/ CmdArgsChecked
    \/ CmdStatusOrPanic
    \/ CmdSuccessOrPanic
    \/ CmdAssertNoNulInArgs

\* ------------------------------------------------------------------------
\* The build script: configuration, environment, libraries
\* ------------------------------------------------------------------------


\* the first element taken for the last
First(s) == s[1]

\* slice::last().unwrap()
Last(s) == s[Len(s)]

\* Option: <<>> is None (or Err), <<x>> is Some(x) (or Ok(x))
None == <<>>
Some(x) == <<x>>

ENV_VAR_NAME_FOR_LIB == "NCURSES_RS_RUSTC_LINK_LIB"
ENV_VAR_NAME_FOR_NCURSES_RS_RUSTC_FLAGS == "NCURSES_RS_RUSTC_FLAGS"
ENV_VAR_NAME_FOR_NCURSES_RS_CFLAGS == "NCURSES_RS_CFLAGS"

\* cfg!(all(feature = "wide", not(target_os = "macos")))
IS_WIDE == world.IS_WIDE

\* the four name lists, as the build configuration (is_wide) selects them
NcursesLibNames(is_wide) ==
    IF is_wide THEN <<"ncursesw5", "ncursesw">> ELSE <<"ncurses5", "ncurses">>

MenuLibNames(is_wide) ==
    IF is_wide THEN <<"menuw5", "menuw">> ELSE <<"menu5", "menu">>

PanelLibNames(is_wide) ==
    IF is_wide THEN <<"panelw5", "panelw">> ELSE <<"panel5", "panel">>

\* elements order here matters: these are tried in order and the first that
\* links is selected
TinfoLibNames(is_wide) ==
    IF is_wide THEN <<"tinfow5", "tinfow", "tinfo">> ELSE <<"tinfo5", "tinfo">>

NCURSES_LIB_NAMES == NcursesLibNames(IS_WIDE)
MENU_LIB_NAMES == MenuLibNames(IS_WIDE)
PANEL_LIB_NAMES == PanelLibNames(IS_WIDE)
TINFO_LIB_NAMES == TinfoLibNames(IS_WIDE)

\* what the environment holds for a variable that is set to bytes that are
\* not valid Unicode
NotUnicode == <<"not", "unicode">>

\* std::env::var: Err (None here) for a variable that is not set and for one
\* whose value is not valid Unicode
env_var(name) == IF world.env[name] = NotUnicode THEN None ELSE world.env[name]

\* a line on stdout: who printed it (build.rs itself, or the pkg_config or cc
\* crate it called), the cargo key, the value; raw: bytes printed as they are
Line(by, k, v) == [by |-> by, k |-> k, v |-> v, raw |-> <<>>]

\* pkg_config::probe_library: on success it prints the link search paths
\* and one cargo:rustc-link-lib per library of the answer
probe_library(name) ==
    LET answer == world.pkg[name]
        lib == answer[1]
    IN  IF answer = None THEN [lib |-> None, out |-> <<>>]
        ELSE [lib |-> answer,
              out |-> [i \in 1..Len(lib.link_paths) |->
                          Line("pkg_config", "rustc-link-search",
                               "native=" \o lib.link_paths[i])]
                      \o [i \in 1..Len(lib.libs) |->
                          Line("pkg_config", "rustc-link-lib", lib.libs[i])]]

\* a find_library whose loop does not return at the first success: it asks
\* every name and keeps the last library accepted
RECURSIVE find_library_keeps_asking(_, _)
find_library_keeps_asking(names, i) ==
    IF i > Len(names) THEN [lib |-> None, asked |-> <<>>, out |-> <<>>]
    ELSE LET p == probe_library(names[i])
             r == find_library_keeps_asking(names, i + 1)
         IN  [lib |-> IF r.lib # None THEN r.lib ELSE p.lib,
              asked |-> <<names[i]>> \o r.asked,
              out |-> p.out \o r.out]

\* the for loop of find_library, from names[i] on
RECURSIVE find_library_from(_, _)
find_library_from(names, i) ==
    IF i > Len(names) THEN [lib |-> None, asked |-> <<>>, out |-> <<>>]
    ELSE LET p == probe_library(names[i])
             r == find_library_from(names, i + 1)
         IN  IF p.lib # None
             THEN [lib |-> p.lib, asked |-> <<names[i]>>, out |-> p.out]
             ELSE [lib |-> r.lib, asked |-> <<names[i]>> \o r.asked,
                   out |-> p.out \o r.out]

find_library(names) == find_library_from(names, 1)

Probe(names, r) == [names |-> names, asked |-> r.asked, lib |-> r.lib]

\* an is_debug that is Result::is_ok alone: any value of DEBUG, "false"
\* too, keeps the artifacts
is_debug_when_set == env_var("DEBUG") # None

is_debug ==
    env_var("DEBUG") # None /\ env_var("DEBUG")[1] # "false"

out_dir == env_var("OUT_DIR")[1]

\* the -L arguments of the ncurses library's link paths
RECURSIVE SearchdirArgs(_)
SearchdirArgs(paths) ==
    IF paths = <<>> THEN <<>>
    ELSE <<<<"-L">>, <<Head(paths)>>>> \o SearchdirArgs(Tail(paths))

\* the loop of linker_searchdir_args run over the include paths
linker_searchdir_args_of_includes(nlib) ==
    IF nlib = None THEN <<>> ELSE SearchdirArgs(nlib[1].include_paths)

linker_searchdir_args(nlib) ==
    IF nlib = None THEN <<>> ELSE SearchdirArgs(nlib[1].link_paths)

\* the -I arguments cc::Build::includes gives the compiler command
RECURSIVE IncludeArgs(_)
IncludeArgs(paths) ==
    IF paths = <<>> THEN <<>>
    ELSE <<<<"-I">>, <<Head(paths)>>>> \o IncludeArgs(Tail(paths))

include_args(nlib) ==
    IF nlib = None THEN <<>> ELSE IncludeArgs(nlib[1].include_paths)

BytesOfAll(args) == [i \in 1..Len(args) |-> AsBytes(args[i])]

\* build.try_get_compiler().to_command(): the compiler with the arguments
\* the Build was given
RECURSIVE to_command_from(_, _)
to_command_from(c, args) ==
    IF args = <<>> THEN c
    ELSE to_command_from(Command_arg(c, AsBytes(Head(args))), Tail(args))

to_command(build_args) == to_command_from(Command_new(Utf8["cc"]), build_args)

\* a process the script ran, or tried to
Proc(step, via, program, args, r) ==
    [step |-> step, via |-> via, program |-> program, args |-> args,
     logged |-> r.logged # <<>>, attempted |-> r.attempted, st |-> r.st]

\* ------------------------------------------------------------------------
\* try_link
\* ------------------------------------------------------------------------

\* The result of a function of the script that runs commands: the panic (if
\* any), the lines it printed, the processes it ran, the files it leaves.
\* fault names the one operation the system refuses this time ("none": it
\* refuses none).

\* the binary and the source of a link trial, in OUT_DIR
try_link_bin(name) == <<out_dir, "/", "try_link_with_", name>>
try_link_src(name) == <<out_dir, "/", "try_link_with_", name, ".c">>

\* the compiler command of a link trial
try_link_command(name, nlib) ==
    then_args_checked(
        then_args_checked(
            then_arg_checked(
                arg_checked(Command_arg(to_command(<<>>), AsBytes(<<"-o">>)),
                            AsBytes(try_link_bin(name))),
                AsBytes(try_link_src(name))),
            <<AsBytes(<<"-l">>), AsBytes(<<name>>)>>),
        BytesOfAll(linker_searchdir_args(nlib)))

\* what the system answers when the command of a link trial is started
LinkAnswer(name, fault) ==
    IF fault = "spawn" THEN SpawnEnoent
    ELSE IF name \in world.linkable THEN Exited(0)
    ELSE Exited(1)

\* a try_link that removes the binary whether or not the trial linked
try_link_steps_removing_both(name, nlib, fault, files, command, exit_status) ==
    LET out_bin_full == try_link_bin(name)
        out_src_full == try_link_src(name)
        ret == success(exit_status.st)
        proc == Proc("try_link", "status_or_panic", <<"cc">>,
                     <<<<"-o">>, out_bin_full, out_src_full, <<"-l">>, <<name>>>>
                         \o linker_searchdir_args(nlib),
                     exit_status)
        written == files \cup {out_src_full}
        linked == written \cup (IF ret THEN {out_bin_full} ELSE {})
        R(pnc, f, ps) == [ret |-> ret /\ pnc = NoPanic, panic |-> pnc,
                          scratch |-> f, procs |-> ps]
    IN  IF fault = "create"
        THEN R([kind |-> "cannot_create", path |-> out_src_full], files, <<>>)
        ELSE IF fault = "write"
        THEN R([kind |-> "cannot_write", path |-> out_src_full], written, <<>>)
        ELSE IF command.panic # NoPanic THEN R(command.panic, written, <<>>)
        ELSE IF exit_status.panic # NoPanic
        THEN R(exit_status.panic, written, <<proc>>)
        ELSE IF is_debug THEN R(NoPanic, linked, <<proc>>)
        ELSE IF fault = "delete_bin"
        THEN R([kind |-> "cannot_delete", path |-> out_bin_full], linked, <<proc>>)
        ELSE IF fault = "delete_src"
        THEN R([kind |-> "cannot_delete", path |-> out_src_full],
               linked \ {out_bin_full}, <<proc>>)
        ELSE R(NoPanic, linked \ {out_bin_full, out_src_full}, <<proc>>)

\* try_link around its command: command is the command as assembled,
\* exit_status what status_or_panic did with it
try_link_steps(name, nlib, fault, files, command, exit_status) ==
    LET out_bin_full == try_link_bin(name)
        out_src_full == try_link_src(name)
        ret == success(exit_status.st)
        proc == Proc("try_link", "status_or_panic", <<"cc">>,
                     <<<<"-o">>, out_bin_full, out_src_full, <<"-l">>, <<name>>>>
                         \o linker_searchdir_args(nlib),
                     exit_status)
        written == files \cup {out_src_full}
        linked == written \cup (IF ret THEN {out_bin_full} ELSE {})
        R(pnc, f, ps) == [ret |-> ret /\ pnc = NoPanic, panic |-> pnc,
                          scratch |-> f, procs |-> ps]
    IN  IF fault = "create"
        THEN R([kind |-> "cannot_create", path |-> out_src_full], files, <<>>)
        ELSE IF fault = "write"
        THEN R([kind |-> "cannot_write", path |-> out_src_full], written, <<>>)
        ELSE IF command.panic # NoPanic THEN R(command.panic, written, <<>>)
        ELSE IF exit_status.panic # NoPanic
        THEN R(exit_status.panic, written, <<proc>>)
        ELSE IF is_debug THEN R(NoPanic, linked, <<proc>>)
        ELSE IF ret /\ fault = "delete_bin"
        THEN R([kind |-> "cannot_delete", path |-> out_bin_full], linked, <<proc>>)
        ELSE IF fault = "delete_src"
        THEN R([kind |-> "cannot_delete", path |-> out_src_full],
               linked \ {out_bin_full}, <<proc>>)
        ELSE R(NoPanic, linked \ {out_bin_full, out_src_full}, <<proc>>)

\* a try_link that runs its command the way gen_rs does: a link step that
\* does not succeed is a panic
try_link_or_panic(name, nlib, fault, files) ==
    try_link_steps(name, nlib, fault, files, try_link_command(name, nlib),
                   success_or_panic(try_link_command(name, nlib).cmd,
                                    LinkAnswer(name, fault)))

try_link(name, nlib, fault, files) ==
    try_link_steps(name, nlib, fault, files, try_link_command(name, nlib),
                   status_or_panic(try_link_command(name, nlib).cmd,
                                   LinkAnswer(name, fault)))

\* ------------------------------------------------------------------------
\* get_ncurses_lib_name
\* ------------------------------------------------------------------------

\* a search that takes the library's first name for the ncurses one
find_head(libs, substring_to_find) ==
    IF libs = <<>> THEN None ELSE Some(Head(libs))

\* lib.libs.iter().find(|&s| s.contains(substring_to_find))
find(libs, substring_to_find) ==
    LET found == {i \in 1..Len(libs) :
                     contains(Utf8[libs[i]], Utf8[substring_to_find])}
    IN  IF found = {} THEN None ELSE Some(libs[Min(found)])

\* the two warnings of get_ncurses_lib_name (the beginning of each: the rest
\* is advice to the user)
WarningNotAmongThem(substring_to_find) ==
    Line("build.rs", "warning",
         "pkg_config reported that it found the ncurses libs but the substring '"
         \o substring_to_find \o "' was not among them")

WarningFallback(what_lib) ==
    Line("build.rs", "warning", "Using fallback lib name '" \o what_lib \o "'")

\* the match of get_ncurses_lib_name: the name, whether pkg_config has
\* printed its directive, and the warning printed on the way; found is what
\* the search in the library's names found
lib_name_match(value, nlib, found) ==
    IF value # None
    THEN [lib_name |-> value[1], already_printed |-> FALSE, warned |-> <<>>]
    ELSE IF nlib # None
    THEN IF found # None
         THEN [lib_name |-> found[1], already_printed |-> TRUE, warned |-> <<>>]
         ELSE [lib_name |-> Last(NCURSES_LIB_NAMES), already_printed |-> FALSE,
               warned |-> <<WarningNotAmongThem("curses")>>]
    ELSE [lib_name |-> Last(NCURSES_LIB_NAMES), already_printed |-> FALSE,
          warned |-> <<WarningFallback(Last(NCURSES_LIB_NAMES))>>]

\* the end of get_ncurses_lib_name: the directive, unless already printed
lib_name_printed(r) ==
    [lib_name |-> r.lib_name,
     out |-> r.warned \o
             (IF ~r.already_printed
              THEN <<Line("build.rs", "rustc-link-lib", r.lib_name)>>
              ELSE <<>>)]

\* a get_ncurses_lib_name that looks at the environment only when pkg-config
\* found no library
get_ncurses_lib_name_env_last(nlib) ==
    lib_name_printed(
        lib_name_match(IF nlib # None THEN None ELSE env_var(ENV_VAR_NAME_FOR_LIB),
                       nlib,
                       IF nlib = None THEN None ELSE find(nlib[1].libs, "curses")))

get_ncurses_lib_name(nlib) ==
    lib_name_printed(
        lib_name_match(env_var(ENV_VAR_NAME_FOR_LIB), nlib,
                       IF nlib = None THEN None ELSE find(nlib[1].libs, "curses")))

\* ------------------------------------------------------------------------
\* check_chtype_size
\* ------------------------------------------------------------------------

\* cargo:rustc-cfg=feature="wide_chtype" and its line end
WideChtypeLine ==
    <<99,97,114,103,111,58,114,117,115,116,99,45,99,102,103,61,102,101,97,
      116,117,114,101,61,34,119,105,100,101,95,99,104,116,121,112,101,34,10>>

\* cargo:rustc-cfg=feature="mouse_v1" and its line end
MouseV1Line ==
    <<99,97,114,103,111,58,114,117,115,116,99,45,99,102,103,61,102,101,97,
      116,117,114,101,61,34,109,111,117,115,101,95,118,49,34,10>>

\* a probe whose preprocessor test asks only whether NCURSES_MOUSE_VERSION is
\* set to some version
chtype_size_main_any_mouse(bits, mouse) ==
    LET wide == IF bits = 64 THEN WideChtypeLine ELSE <<>>
        mouse_v1 == IF mouse >= 1 THEN MouseV1Line ELSE <<>>
    IN  IF bits # 64 /\ bits # 32 THEN [stdout |-> <<>>, st |-> Signaled]
        ELSE [stdout |-> wide \o mouse_v1, st |-> Exited(0)]

\* The C program check_chtype_size writes, compiled against headers whose
\* chtype has `bits` bits and whose NCURSES_MOUSE_VERSION is `mouse` (0: not
\* defined). A failed assert aborts it: what puts buffered is never written.
chtype_size_main(bits, mouse) ==
    LET wide == IF bits = 64 THEN WideChtypeLine ELSE <<>>
        mouse_v1 == IF mouse = 1 THEN MouseV1Line ELSE <<>>
    IN  IF bits # 64 /\ bits # 32 THEN [stdout |-> <<>>, st |-> Signaled]
        ELSE [stdout |-> wide \o mouse_v1, st |-> Exited(0)]

\* the bytes of U+FFFD
ReplacementCharacter == <<239, 191, 189>>

\* String::from_utf8_lossy: valid text is kept, a byte that is part of none
\* is replaced
RECURSIVE from_utf8_lossy(_)
from_utf8_lossy(b) ==
    LET n == Len(b)
        valid == {k \in 1..4 : k <= n /\ IsUtf8(SubSeq(b, 1, k))}
    IN  IF n = 0 THEN <<>>
        ELSE IF valid # {}
        THEN SubSeq(b, 1, Min(valid)) \o from_utf8_lossy(SubSeq(b, Min(valid) + 1, n))
        ELSE ReplacementCharacter \o from_utf8_lossy(SubSeq(b, 2, n))

\* print!("{}", text): nothing is written for an empty text
Printed(text) ==
    IF text = <<>> THEN <<>>
    ELSE <<[by |-> "build.rs", k |-> "print", v |-> "", raw |-> text]>>

CompilerAnswer(fault) ==
    IF fault = "spawn" THEN SpawnEnoent
    ELSE IF fault = "compile_exit" THEN Exited(1)
    ELSE IF fault = "compile_signal" THEN Signaled
    ELSE Exited(0)

\* Command::new(bin).output() of a binary the script has just built
Output(step, bin_full, st) ==
    [step |-> step, via |-> "output", program |-> bin_full, args |-> <<>>,
     logged |-> FALSE, attempted |-> TRUE, st |-> st]

\* the compiler command of the probe
chtype_size_command(nlib) ==
    then_arg_checked(
        arg_checked(Command_arg(to_command(include_args(nlib)), AsBytes(<<"-o">>)),
                    AsBytes(<<out_dir, "/", "chtype_size">>)),
        AsBytes(<<out_dir, "/", "chtype_size.c">>))

\* check_chtype_size around its compilation and the run of the probe:
\* command is the command as assembled, compiled what success_or_panic did
\* with it, features what the probe did, printed what print! wrote of it
check_chtype_size_steps(nlib, fault, files, command, compiled, features, printed) ==
    LET src == <<out_dir, "/", "chtype_size.c">>
        bin_full == <<out_dir, "/", "chtype_size">>
        compile == Proc("check_chtype_size", "success_or_panic", <<"cc">>,
                        include_args(nlib) \o <<<<"-o">>, bin_full, src>>, compiled)
        run == Output("check_chtype_size", bin_full, features.st)
        written == files \cup {src}
        built == written \cup {bin_full}
        R(pnc, o, f, ps) == [panic |-> pnc, out |-> o, scratch |-> f, procs |-> ps]
    IN  IF fault = "create"
        THEN R([kind |-> "cannot_create", path |-> src], <<>>, files, <<>>)
        ELSE IF fault = "write"
        THEN R([kind |-> "cannot_write", path |-> src], <<>>, written, <<>>)
        ELSE IF command.panic # NoPanic THEN R(command.panic, <<>>, written, <<>>)
        ELSE IF compiled.panic # NoPanic
        THEN R(compiled.panic, <<>>, written, <<compile>>)
        ELSE IF fault = "exec"
        THEN R([kind |-> "executing_failed", path |-> bin_full], <<>>, built,
               <<compile, Output("check_chtype_size", bin_full, SpawnEnoent)>>)
        ELSE IF is_debug THEN R(NoPanic, printed, built, <<compile, run>>)
        ELSE IF fault = "delete_src"
        THEN R([kind |-> "cannot_delete", path |-> src], printed, built,
               <<compile, run>>)
        ELSE IF fault = "delete_bin"
        THEN R([kind |-> "cannot_delete", path |-> bin_full], printed,
               built \ {src}, <<compile, run>>)
        ELSE R(NoPanic, printed, built \ {src, bin_full}, <<compile, run>>)

\* print!("{}", String::from_utf8_lossy(&features.stdout))
print_features(features) == Printed(from_utf8_lossy(features.stdout))

check_chtype_size(nlib, fault, files) ==
    check_chtype_size_steps(nlib, fault, files, chtype_size_command(nlib),
        success_or_panic(chtype_size_command(nlib).cmd, CompilerAnswer(fault)),
        chtype_size_main(world.chtype_bits, world.mouse_version),
        print_features(chtype_size_main(world.chtype_bits, world.mouse_version)))

\* ------------------------------------------------------------------------
\* gen_rs and build_wrap
\* ------------------------------------------------------------------------

\* a file opened without truncation: what it held stays
File_open(fs, name) ==
    [n \in DOMAIN fs \cup {name} |-> IF n \in DOMAIN fs THEN fs[n] ELSE <<>>]

\* File::create: the file exists and is empty, whatever it held
File_create(fs, name) == [n \in DOMAIN fs \cup {name} |-> IF n = name THEN <<>> ELSE fs[n]]

\* file.write_all(buf) on a file at its end
write_all(fs, name, buf) == [fs EXCEPT ![name] = @ \o buf]

\* the compiler command of a generator
gen_rs_command(source_c_file, out_bin_fname, nlib, name) ==
    then_args_checked(
        then_args_checked(
            then_arg_checked(
                arg_checked(Command_arg(to_command(include_args(nlib)),
                                        AsBytes(<<"-o">>)),
                            AsBytes(<<out_dir, "/", out_bin_fname>>)),
                AsBytes(<<source_c_file>>)),
            <<AsBytes(<<"-l">>), AsBytes(<<name>>)>>),
        BytesOfAll(linker_searchdir_args(nlib)))

\* a gen_rs that links the generator with the last terminfo name as well
gen_rs_steps_with_terminfo(source_c_file, out_bin_fname, gen_rust_file, nlib, name, fault, fs, command, compiled) ==
    LET bin_full == <<out_dir, "/", out_bin_fname>>
        compile == Proc(out_bin_fname, "success_or_panic", <<"cc">>,
                        include_args(nlib)
                            \o <<<<"-o">>, bin_full, <<source_c_file>>, <<"-l">>, <<name>>,
                                  <<"-l">>, <<Last(TINFO_LIB_NAMES)>>>>
                            \o linker_searchdir_args(nlib),
                        compiled)
        consts == world.gen[out_bin_fname]
        run == Output(out_bin_fname, bin_full, consts.st)
        printed == <<Line("build.rs", "rerun-if-changed", source_c_file),
                     Line("build.rs", "rerun-if-env-changed",
                          ENV_VAR_NAME_FOR_NCURSES_RS_CFLAGS)>>
        R(pnc, f, ps) == [panic |-> pnc, out |-> printed, generated |-> f, procs |-> ps]
    IN  IF command.panic # NoPanic THEN R(command.panic, fs, <<>>)
        ELSE IF compiled.panic # NoPanic THEN R(compiled.panic, fs, <<compile>>)
        ELSE IF fault = "exec"
        THEN R([kind |-> "executing_failed", path |-> bin_full], fs,
               <<compile, Output(out_bin_fname, bin_full, SpawnEnoent)>>)
        ELSE IF fault = "create"
        THEN R([kind |-> "cannot_create", path |-> <<out_dir, "/", gen_rust_file>>],
               fs, <<compile, run>>)
        ELSE IF fault = "write"
        THEN R([kind |-> "cannot_write", path |-> <<out_dir, "/", gen_rust_file>>],
               File_create(fs, gen_rust_file), <<compile, run>>)
        ELSE R(NoPanic,
               write_all(File_create(fs, gen_rust_file), gen_rust_file, consts.stdout),
               <<compile, run>>)

\* gen_rs around its compilation: command is the command as assembled,
\* compiled what success_or_panic did with it
gen_rs_steps(source_c_file, out_bin_fname, gen_rust_file, nlib, name, fault, fs, command, compiled) ==
    LET bin_full == <<out_dir, "/", out_bin_fname>>
        compile == Proc(out_bin_fname, "success_or_panic", <<"cc">>,
                        include_args(nlib)
                            \o <<<<"-o">>, bin_full, <<source_c_file>>, <<"-l">>, <<name>>>>
                            \o linker_searchdir_args(nlib),
                        compiled)
        consts == world.gen[out_bin_fname]
        run == Output(out_bin_fname, bin_full, consts.st)
        printed == <<Line("build.rs", "rerun-if-changed", source_c_file),
                     Line("build.rs", "rerun-if-env-changed",
                          ENV_VAR_NAME_FOR_NCURSES_RS_CFLAGS)>>
        R(pnc, f, ps) == [panic |-> pnc, out |-> printed, generated |-> f, procs |-> ps]
    IN  IF command.panic # NoPanic THEN R(command.panic, fs, <<>>)
        ELSE IF compiled.panic # NoPanic THEN R(compiled.panic, fs, <<compile>>)
        ELSE IF fault = "exec"
        THEN R([kind |-> "executing_failed", path |-> bin_full], fs,
               <<compile, Output(out_bin_fname, bin_full, SpawnEnoent)>>)
        ELSE IF fault = "create"
        THEN R([kind |-> "cannot_create", path |-> <<out_dir, "/", gen_rust_file>>],
               fs, <<compile, run>>)
        ELSE IF fault = "write"
        THEN R([kind |-> "cannot_write", path |-> <<out_dir, "/", gen_rust_file>>],
               File_create(fs, gen_rust_file), <<compile, run>>)
        ELSE R(NoPanic,
               write_all(File_create(fs, gen_rust_file), gen_rust_file, consts.stdout),
               <<compile, run>>)

gen_rs(source_c_file, out_bin_fname, gen_rust_file, nlib, name, fault, fs) ==
    gen_rs_steps(source_c_file, out_bin_fname, gen_rust_file, nlib, name, fault, fs,
        gen_rs_command(source_c_file, out_bin_fname, nlib, name),
        success_or_panic(gen_rs_command(source_c_file, out_bin_fname, nlib, name).cmd,
                         CompilerAnswer(fault)))

\* cc::Build::compile panics when the compilation fails, and prints the
\* archive's link directives when it succeeds
build_wrap(nlib, fault) ==
    LET printed == <<Line("build.rs", "rerun-if-changed", "src/wrap.c")>>
    IN  IF fault = "compile"
        THEN [panic |-> [kind |-> "cc_compile_failed", path |-> <<"src/wrap.c">>],
              out |-> printed]
        ELSE [panic |-> NoPanic,
              out |-> printed \o
                      <<Line("cc", "rustc-link-lib", "static=wrap"),
                        Line("cc", "rustc-link-search", "native=" \o out_dir)>>]

\* ------------------------------------------------------------------------
\* main, step by step
\* ------------------------------------------------------------------------

Running(at) == pc = at /\ panic = NoPanic

\* a find_library call returned r: what was printed before it, what it
\* printed, what is printed if it found nothing; and the record of the call
Found(names, r, before, if_none) ==
    /\ out' = out \o before \o r.out \o (IF r.lib = None THEN if_none ELSE <<>>)
    /\ probes' = Append(probes, Probe(names, r))

\* lines 111-118: the rerun-if-env-changed lines, then the ncurses probe
FindNcurses ==
    /\ Running("find_ncurses")
    /\ Found(NCURSES_LIB_NAMES, find_library(NCURSES_LIB_NAMES),
             <<Line("build.rs", "rerun-if-env-changed", "PKG_CONFIG_PATH"),
               Line("build.rs", "rerun-if-env-changed",
                    ENV_VAR_NAME_FOR_NCURSES_RS_RUSTC_FLAGS),
               Line("build.rs", "rerun-if-env-changed", ENV_VAR_NAME_FOR_LIB)>>,
             <<>>)
    /\ ncurses_lib' = find_library(NCURSES_LIB_NAMES).lib
    /\ pc' = "find_menu"
    /\ UNCHANGED <<world, each, lib_name, procs, scratch, generated, panic, guardVars>>

\* a block without its cfg! test: the library is probed whether or not the
\* feature is enabled
FeatureLibraryWhetherEnabled(enabled, names, next) ==
    /\ Found(names, find_library(names), <<>>,
             <<Line("build.rs", "rustc-link-lib", Last(names))>>)
    /\ pc' = next
    /\ UNCHANGED <<world, each, ncurses_lib, lib_name, procs, scratch, generated,
                   panic, guardVars>>

\* the block of a feature's library: probe it and, if it is not found, print
\* the directive for the last name
FeatureLibrary(enabled, names, next) ==
    /\ IF enabled
       THEN Found(names, find_library(names), <<>>,
                  <<Line("build.rs", "rustc-link-lib", Last(names))>>)
       ELSE UNCHANGED <<out, probes>>
    /\ pc' = next
    /\ UNCHANGED <<world, each, ncurses_lib, lib_name, procs, scratch, generated,
                   panic, guardVars>>

\* lines 120-125
FindMenu ==
    /\ Running("find_menu")
    /\ FeatureLibrary(world.feature_menu, MENU_LIB_NAMES, "find_panel")

\* lines 127-132
FindPanel ==
    /\ Running("find_panel")
    /\ FeatureLibrary(world.feature_panel, PANEL_LIB_NAMES, "find_tinfo")

\* line 154
FindTinfo ==
    /\ Running("find_tinfo")
    /\ Found(TINFO_LIB_NAMES, find_library(TINFO_LIB_NAMES), <<>>, <<>>)
    /\ pc' = IF find_library(TINFO_LIB_NAMES).lib = None
             THEN "try_link" ELSE "get_ncurses_lib_name"
    /\ UNCHANGED <<world, each, ncurses_lib, lib_name, procs, scratch, generated,
                   panic, guardVars>>

\* a loop body without its break: the loop goes on to the next name after a
\* name has linked
TriedWithoutBreak(name, r) ==
    /\ procs' = procs \o r.procs
    /\ scratch' = r.scratch
    /\ panic' = r.panic
    /\ out' = IF r.ret
              THEN out \o <<Line("build.rs", "warning",
                                 "Found tinfo fallback '" \o name \o "'"),
                            Line("build.rs", "rustc-link-lib", name)>>
              ELSE out
    /\ pc' = IF r.panic # NoPanic THEN pc
             ELSE IF each = Len(TINFO_LIB_NAMES) THEN "get_ncurses_lib_name"
             ELSE pc
    /\ each' = IF r.panic = NoPanic /\ each < Len(TINFO_LIB_NAMES)
               THEN each + 1 ELSE each

\* the body of the loop, try_link(name, ..) having returned r (or panicked)
Tried(name, r) ==
    /\ procs' = procs \o r.procs
    /\ scratch' = r.scratch
    /\ panic' = r.panic
    /\ out' = IF r.ret
              THEN out \o <<Line("build.rs", "warning",
                                 "Found tinfo fallback '" \o name \o "'"),
                            Line("build.rs", "rustc-link-lib", name)>>
              ELSE out
    /\ pc' = IF r.panic # NoPanic THEN pc
             ELSE IF r.ret \/ each = Len(TINFO_LIB_NAMES)
             THEN "get_ncurses_lib_name"
             ELSE pc
    /\ each' = IF r.panic = NoPanic /\ ~r.ret /\ each < Len(TINFO_LIB_NAMES)
               THEN each + 1 ELSE each

TryLinkFaults == {"none", "create", "write", "spawn", "delete_bin", "delete_src"}

\* lines 158-166: one turn of the loop over TINFO_LIB_NAMES
TryLink ==
    /\ Running("try_link")
    /\ \E fault \in TryLinkFaults :
        Tried(TINFO_LIB_NAMES[each],
              try_link(TINFO_LIB_NAMES[each], ncurses_lib, fault, scratch))
    /\ UNCHANGED <<world, ncurses_lib, lib_name, probes, generated, guardVars>>

\* line 172
GetNcursesLibName ==
    /\ Running("get_ncurses_lib_name")
    /\ lib_name' = get_ncurses_lib_name(ncurses_lib).lib_name
    /\ out' = out \o get_ncurses_lib_name(ncurses_lib).out
    /\ pc' = "rustc_flags"
    /\ UNCHANGED <<world, each, ncurses_lib, probes, procs, scratch, generated,
                   panic, guardVars>>

\* a main without its call of check_chtype_size: the generators come right
\* after the flags
RustcFlagsThenGenerators ==
    /\ Running("rustc_flags")
    /\ LET x == env_var(ENV_VAR_NAME_FOR_NCURSES_RS_RUSTC_FLAGS)
       IN  out' = IF x # None
                  THEN Append(out, Line("build.rs", "rustc-flags", x[1]))
                  ELSE out
    /\ pc' = "gen_rs_core"
    /\ UNCHANGED <<world, each, ncurses_lib, lib_name, probes, procs, scratch,
                   generated, panic, guardVars>>

\* a main that prints the flags whether or not the variable could be read
\* (unwrap_or_default in place of if let Ok)
RustcFlagsUnconditional ==
    /\ Running("rustc_flags")
    /\ LET x == env_var(ENV_VAR_NAME_FOR_NCURSES_RS_RUSTC_FLAGS)
       IN  out' = Append(out, Line("build.rs", "rustc-flags",
                                   IF x # None THEN x[1] ELSE ""))
    /\ pc' = "check_chtype_size"
    /\ UNCHANGED <<world, each, ncurses_lib, lib_name, probes, procs, scratch,
                   generated, panic, guardVars>>

\* lines 174-176
RustcFlags ==
    /\ Running("rustc_flags")
    /\ LET x == env_var(ENV_VAR_NAME_FOR_NCURSES_RS_RUSTC_FLAGS)
       IN  out' = IF x # None
                  THEN Append(out, Line("build.rs", "rustc-flags", x[1]))
                  ELSE out
    /\ pc' = "check_chtype_size"
    /\ UNCHANGED <<world, each, ncurses_lib, lib_name, probes, procs, scratch,
                   generated, panic, guardVars>>

\* check_chtype_size has returned r (or panicked)
ProbedChtype(r) ==
    /\ out' = out \o r.out
    /\ procs' = procs \o r.procs
    /\ scratch' = r.scratch
    /\ panic' = r.panic
    /\ pc' = IF r.panic # NoPanic THEN pc ELSE "gen_rs_core"

ChtypeFaults ==
    {"none", "create", "write", "spawn", "compile_exit", "compile_signal", "exec",
     "delete_src", "delete_bin"}

\* line 178
CheckChtypeSize ==
    /\ Running("check_chtype_size")
    /\ \E fault \in ChtypeFaults :
        ProbedChtype(check_chtype_size(ncurses_lib, fault, scratch))
    /\ UNCHANGED <<world, each, ncurses_lib, lib_name, probes, generated, guardVars>>

\* gen_rs has returned r (or panicked)
Generated(r, next) ==
    /\ out' = out \o r.out
    /\ procs' = procs \o r.procs
    /\ generated' = r.generated
    /\ panic' = r.panic
    /\ pc' = IF r.panic # NoPanic THEN pc ELSE next

GenFaults ==
    {"none", "spawn", "compile_exit", "compile_signal", "exec", "create", "write"}

GenRs(source_c_file, out_bin_fname, gen_rust_file, next) ==
    /\ \E fault \in GenFaults :
        Generated(gen_rs(source_c_file, out_bin_fname, gen_rust_file, ncurses_lib,
                         lib_name, fault, generated),
                  next)
    /\ UNCHANGED <<world, each, ncurses_lib, lib_name, probes, scratch, guardVars>>

\* lines 180-186
GenRsCore ==
    /\ Running("gen_rs_core")
    /\ GenRs("src/genconstants.c", "genconstants", "raw_constants.rs", "gen_rs_menu")

\* lines 188-194
GenRsMenu ==
    /\ Running("gen_rs_menu")
    /\ GenRs("src/menu/genconstants.c", "genmenuconstants", "menu_constants.rs",
             "build_wrap")

WrapFaults == {"none", "compile"}

\* line 196
BuildWrap ==
    /\ Running("build_wrap")
    /\ \E fault \in WrapFaults :
        LET r == build_wrap(ncurses_lib, fault)
        IN  /\ out' = out \o r.out
            /\ panic' = r.panic
            /\ pc' = IF r.panic # NoPanic THEN pc ELSE "done"
    /\ UNCHANGED <<world, each, ncurses_lib, lib_name, probes, procs, scratch,
                   generated, guardVars>>

Next ==
    \/ FindNcurses
    \/ FindMenu
    \/ FindPanel
    \/ FindTinfo
    \/ TryLink
    \/ GetNcursesLibName
    \/ RustcFlags
    \/ CheckChtypeSize
    \/ GenRsCore
    \/ GenRsMenu
    \/ BuildWrap

\* ------------------------------------------------------------------------
\* The worlds the script is run in
\* ------------------------------------------------------------------------

\* What pkg-config may answer for an ncurses name n
\*   1: the library alone, no paths         2: the library, then tinfo
\*   3: tinfo, the library, a second one    4: tinfo only
NcursesAnswer(v, n, tinfo, other) ==
    CASE v = 1 -> [libs |-> <<n>>, link_paths |-> <<>>, include_paths |-> <<>>]
      [] v = 2 -> [libs |-> <<n, tinfo>>, link_paths |-> <<"/usr/lib">>,
                   include_paths |-> <<"/usr/include">>]
      [] v = 3 -> [libs |-> <<tinfo, n, other>>, link_paths |-> <<>>,
                   include_paths |-> <<"/usr/include">>]
      [] OTHER -> [libs |-> <<tinfo>>, link_paths |-> <<"/usr/lib">>,
                   include_paths |-> <<>>]

\* What it may answer for a menu name: the library alone (1), or with the
\* ncurses library it requires (2)
MenuAnswer(v, n, ncurses) ==
    [libs |-> IF v = 1 THEN <<n>> ELSE <<n, ncurses>>, link_paths |-> <<>>,
     include_paths |-> <<>>]

Alone(n) == [libs |-> <<n>>, link_paths |-> <<>>, include_paths |-> <<>>]

\* pkg-config's answers for a list: it knows the names at the positions acc
Answers(names, acc, answer) ==
    [n \in {names[i] : i \in 1..Len(names)} |->
        IF \E i \in acc : i <= Len(names) /\ names[i] = n
        THEN Some(answer[n]) ELSE None]

\* the names of a list
Of(names) == {names[i] : i \in 1..Len(names)}

Named(names, positions) ==
    {names[i] : i \in {j \in positions : j <= Len(names)}}

\* what gen binaries may print: nothing; lines out of order with blanks at
\* both ends and an empty line; a byte that is not UTF-8
GenStdout(i) ==
    CASE i = 1 -> <<>>
      [] i = 2 -> <<32, 98, 10, 10, 97, 32, 10>>
      [] OTHER -> <<255, 10>>

GenStatus(i) ==
    CASE i = 1 -> Exited(0)
      [] i = 2 -> Exited(1)
      [] OTHER -> Signaled

\* the generated files an earlier run left: none, or both with some content
StaleFiles(i) ==
    IF i = 0 THEN <<>>
    ELSE ("raw_constants.rs" :> <<111, 108, 100, 32, 111, 108, 100, 32, 111, 108, 100, 10>>)
         @@ ("menu_constants.rs" :> <<111, 108, 100, 10>>)

\* The world of a choice c (one value per thing that can vary)
World(c) ==
    LET ncurses == NcursesLibNames(c.wide)
        menu == MenuLibNames(c.wide)
        panel == PanelLibNames(c.wide)
        tinfo == TinfoLibNames(c.wide)
        NAnswer(n) == NcursesAnswer(c.varN, n, Last(tinfo),
                                    IF n = ncurses[1] THEN ncurses[2] ELSE ncurses[1])
        MAnswer(n) == MenuAnswer(c.varM, n, Last(ncurses))
    IN  [IS_WIDE |-> c.wide,
         feature_menu |-> c.menu,
         feature_panel |-> c.panel,
         env |-> [v \in {ENV_VAR_NAME_FOR_LIB, ENV_VAR_NAME_FOR_NCURSES_RS_RUSTC_FLAGS,
                         "DEBUG", "OUT_DIR"} |->
                    CASE v = ENV_VAR_NAME_FOR_LIB ->
                            CASE c.envLib = 0 -> None
                              [] c.envLib = 1 -> Some(ncurses[2])
                              [] c.envLib = 2 -> Some(ncurses[1])
                              [] OTHER -> Some("pdcurses")
                      [] v = ENV_VAR_NAME_FOR_NCURSES_RS_RUSTC_FLAGS ->
                            CASE c.envFlags = 0 -> None
                              [] c.envFlags = 1 -> Some("-ltinfo")
                              [] OTHER -> NotUnicode
                      [] v = "DEBUG" ->
                            CASE c.debug = 0 -> None
                              [] c.debug = 1 -> Some("true")
                              [] OTHER -> Some("false")
                      [] OTHER -> Some("/out")],
         pkg |-> Answers(ncurses, c.accN, [n \in Of(ncurses) |-> NAnswer(n)])
                 @@ Answers(menu, IF c.menu THEN c.accM ELSE {},
                            [n \in Of(menu) |-> MAnswer(n)])
                 @@ Answers(panel, IF c.panel THEN c.accP ELSE {},
                            [n \in Of(panel) |-> Alone(n)])
                 @@ Answers(tinfo, c.accT, [n \in Of(tinfo) |-> Alone(n)]),
         linkable |-> Named(tinfo, c.linkable),
         chtype_bits |-> c.bits,
         mouse_version |-> c.mouse,
         gen |-> [genconstants |-> [stdout |-> GenStdout(c.gen1), st |-> GenStatus(c.st1)],
                  genmenuconstants |-> [stdout |-> GenStdout(c.gen2), st |-> GenStatus(c.st2)]],
         stale |-> StaleFiles(c.stale)]

\* a usual world: wide, both features, pkg-config knows the unversioned
\* names of ncurses, menu and panel and no tinfo, and the third terminfo name
\* ("tinfo", where the list has three) links
Usual ==
    [wide |-> TRUE, menu |-> TRUE, panel |-> TRUE,
     accN |-> {2}, varN |-> 2, accM |-> {2}, varM |-> 1, accP |-> {2}, accT |-> {},
     linkable |-> {3}, envLib |-> 0, envFlags |-> 0, debug |-> 2,
     bits |-> 32, mouse |-> 1, gen1 |-> 2, st1 |-> 1, gen2 |-> 2, st2 |-> 1,
     stale |-> 0]

\* what pkg-config knows of each list (menu and panel alike)
Discovery ==
    {[Usual EXCEPT !.wide = w, !.accN = an, !.accM = am, !.accP = am, !.accT = at] :
        w \in BOOLEAN, an \in SUBSET (1..2), am \in SUBSET (1..2),
        at \in SUBSET (1..3)}

\* the features of the crate
Features ==
    {[Usual EXCEPT !.wide = w, !.menu = m, !.panel = p, !.accM = am, !.accP = am] :
        w \in BOOLEAN, m \in BOOLEAN, p \in BOOLEAN, am \in {{}, {1}, {2}}}

\* pkg-config knows no tinfo: what links, and whether artifacts are kept
LinkTrials ==
    {[Usual EXCEPT !.wide = w, !.accN = an, !.varN = vn, !.linkable = l, !.debug = d] :
        w \in BOOLEAN, an \in {{}, {2}}, vn \in 1..2, l \in SUBSET (1..3),
        d \in 0..2}

\* the override of the library name, against what pkg-config answers
Naming ==
    {[Usual EXCEPT !.wide = w, !.accN = an, !.varN = vn, !.varM = vm, !.envLib = e] :
        w \in BOOLEAN, an \in SUBSET (1..2), vn \in 1..4, vm \in 1..2, e \in 0..3}

\* no pkg-config at all
NoPkgConfig ==
    {[Usual EXCEPT !.wide = w, !.menu = m, !.panel = p, !.accN = {}, !.accM = {},
                   !.accP = {}, !.accT = {}, !.linkable = l, !.envLib = e] :
        w \in BOOLEAN, m \in BOOLEAN, p \in BOOLEAN, l \in {{}, {3}, {1, 2}},
        e \in 0..3}

\* the headers and the flags
Headers ==
    {[Usual EXCEPT !.accN = an, !.bits = b, !.mouse = mv, !.debug = d, !.envFlags = f] :
        an \in {{}, {2}}, b \in {16, 32, 64}, mv \in 0..2, d \in 1..2,
        f \in 0..2}

\* the generated constants: what each generator prints and how it ends, and
\* what an earlier build left
Generating ==
    {[Usual EXCEPT !.accN = an, !.gen1 = g[1], !.st1 = g[2], !.gen2 = h[1],
                   !.st2 = h[2], !.stale = o] :
        an \in {{}, {2}}, g \in {<<1, 1>>, <<2, 1>>, <<3, 1>>, <<2, 2>>, <<2, 3>>},
        h \in {<<2, 1>>, <<3, 2>>}, o \in 0..1}

Worlds ==
    {World(c) : c \in Discovery \cup Features \cup LinkTrials \cup Naming
                      \cup NoPkgConfig \cup Headers \cup Generating}

\* the trait's variables while main runs
GuardIdle ==
    /\ current = Command_new(Utf8["cc"])
    /\ given = <<>>
    /\ ran = NotRan

MainInit ==
    /\ world \in Worlds
    /\ pc = "find_ncurses"
    /\ each = 1
    /\ out = <<>>
    /\ ncurses_lib = None
    /\ lib_name = ""
    /\ probes = <<>>
    /\ procs = <<>>
    /\ scratch = {}
    /\ generated = world.stale
    /\ panic = NoPanic

Init == MainInit /\ GuardIdle

Spec == Init /\ [][Next]_vars

\* main's variables while the trait is exercised on its own
MainIdle ==
    /\ world = World(Usual)
    /\ pc = "idle"
    /\ each = 1
    /\ out = <<>>
    /\ ncurses_lib = None
    /\ lib_name = ""
    /\ probes = <<>>
    /\ procs = <<>>
    /\ scratch = {}
    /\ generated = <<>>
    /\ panic = NoPanic

CommandInit == GuardInit /\ MainIdle

SpecCommand == CommandInit /\ [][CommandNext]_vars

\* ------------------------------------------------------------------------
\* What is observed of a run
\* ------------------------------------------------------------------------

\* the steps of main, in the order main takes them
Steps ==
    <<"find_ncurses", "find_menu", "find_panel", "find_tinfo", "try_link",
      "get_ncurses_lib_name", "rustc_flags", "check_chtype_size", "gen_rs_core",
      "gen_rs_menu", "build_wrap", "done">>

StepNumber(step) == CHOOSE i \in 1..Len(Steps) : Steps[i] = step

\* main has completed the step: it is at a later one
Past(step) == StepNumber(pc) > StepNumber(step)

\* the positions of a list of names that pkg-config accepts
Accepted(names) == {i \in 1..Len(names) : world.pkg[names[i]] # None}

Least(S) == CHOOSE x \in S : \A y \in S : x <= y

\* the link trials made so far, in the order they were made
Trials == SelectSeq(procs, LAMBDA p : p.step = "try_link")

\* the names of the terminfo list, as the configuration declares them
DeclaredTinfo == TinfoLibNames(world.IS_WIDE)

\* the positions of the terminfo names that link in this world
Links == {i \in 1..Len(DeclaredTinfo) : DeclaredTinfo[i] \in world.linkable}

\* the linker directives build.rs itself printed for terminfo names
TinfoDirectives ==
    SelectSeq(out, LAMBDA l : /\ l.by = "build.rs"
                              /\ l.k = "rustc-link-lib"
                              /\ \E i \in 1..Len(DeclaredTinfo) : l.v = DeclaredTinfo[i])

\* ------------------------------------------------------------------------
\* Properties
\* ------------------------------------------------------------------------

\* C1: every find_library call returns the library pkg-config answers for
\* the first name of its list that pkg-config accepts, has asked the names
\* up to that one and none after it, and returns None exactly when pkg-config
\* accepts no name of the list (having asked them all).
C1_FirstAccepted ==
    \A k \in 1..Len(probes) :
        LET p == probes[k]
            acc == Accepted(p.names)
        IN  IF acc = {}
            THEN p.lib = None /\ p.asked = p.names
            ELSE /\ p.lib = world.pkg[p.names[Least(acc)]]
                 /\ p.lib # None
                 /\ p.asked = SubSeq(p.names, 1, Least(acc))

\* C1 happens: a call on three names, of which pkg-config rejects the first
\* and accepts the second and the third, returned the second's library
C1_Witness ==
    \E k \in 1..Len(probes) :
        /\ Len(probes[k].names) = 3
        /\ Accepted(probes[k].names) = {2, 3}
        /\ probes[k].lib = world.pkg[probes[k].names[2]]
        /\ probes[k].asked = SubSeq(probes[k].names, 1, 2)

\* C2: the link trials are made for the terminfo names in their declared
\* order, starting from the first; no trial follows one whose link step
\* succeeded; and once the loop is over the one terminfo directive build.rs
\* printed is for the first name that links, later names that link too not
\* having been tried (no directive if no name links).
C2_TrialsInOrder ==
    /\ Len(Trials) <= Len(DeclaredTinfo)
    /\ \A k \in 1..Len(Trials) :
        /\ Trials[k].args[5] = <<DeclaredTinfo[k]>>
        /\ Trials[k].st.t = "exit" =>
               Trials[k].st = IF k \in Links THEN Exited(0) ELSE Exited(1)
        /\ k < Len(Trials) => Trials[k].st = Exited(1) /\ k \notin Links
    /\ Len(Trials) > 0 => Accepted(DeclaredTinfo) = {}
    /\ (Past("try_link") /\ Accepted(DeclaredTinfo) = {}) =>
           IF Links = {}
           THEN Len(Trials) = Len(DeclaredTinfo) /\ TinfoDirectives = <<>>
           ELSE /\ Len(Trials) = Least(Links)
                /\ Len(TinfoDirectives) = 1
                /\ TinfoDirectives[1].v = DeclaredTinfo[Least(Links)]

\* C2 happens: the first name does not link, the second and the third do,
\* and the run ended having tried two names and selected the second
C2_Witness ==
    /\ pc = "done"
    /\ Links = {2, 3}
    /\ Len(Trials) = 2
    /\ TinfoDirectives = <<Line("build.rs", "rustc-link-lib", DeclaredTinfo[2])>>

\* the positions of the arguments given with a NUL in them
GivenWithNul == {i \in 1..Len(given) : has_null_byte(given[i].arg)}

\* the positions of the arguments the Command holds as the replacement text:
\* those given with a NUL through Command::arg, and those given as that text
HeldAsReplacement ==
    {i \in 1..Len(given) :
        has_null_byte(given[i].arg) \/ given[i].arg = REPLACEMENT_FOR_ARG_THAT_HAS_NUL}

\* the command's life has ended: a checked call panicked, or it was run
Ended == ran.entry # "none"

\* C3 (amended): a command given an argument with a NUL never reaches a
\* spawn, and its life ends in a panic. Given through arg_checked or
\* args_checked, the panic is that call's and carries the exact value of the
\* first such argument, so a run is reached only if every NUL came through
\* Command::arg. Then, the program being valid text, success_or_panic names
\* the 1-based position of the first argument held as the replacement text,
\* and status_or_panic reports the failure to run with the argument list (the
\* replacement text in the argument's place) and the reason "nul byte found
\* in provided data"; a program that is not valid text is what the panic is
\* about instead.
C3_NulNeverSpawned ==
    (GivenWithNul # {} /\ Ended) =>
        /\ ~ran.attempted
        /\ ran.panic # NoPanic
        /\ ran.entry \in {"arg_checked", "args_checked"} =>
               /\ ran.panic.kind = "found_arg_with_nul"
               /\ ran.panic.arg =
                      given[Least({i \in GivenWithNul : given[i].how # "arg"})].arg
        /\ ran.entry \in {"status_or_panic", "success_or_panic"} =>
               /\ \A i \in GivenWithNul : given[i].how = "arg"
               /\ \A i \in GivenWithNul :
                      current.args[i] = REPLACEMENT_FOR_ARG_THAT_HAS_NUL
               /\ IF ~IsUtf8(current.program)
                  THEN ran.panic.kind = "executable_not_valid_string"
                  ELSE IF ran.entry = "success_or_panic"
                  THEN /\ ran.panic.kind = "found_arg_number_with_nul"
                       /\ ran.panic.number = Least(HeldAsReplacement)
                  ELSE /\ ran.panic.kind = "failed_to_run"
                       /\ ran.panic.reason = "nul byte found in provided data"
                       /\ ran.panic.how_many_args = Len(given)
                       /\ ran.panic.formatted_args
                              = <<34>> \o JoinShown(current.args) \o <<34>>

\* C3 happens: the second of two arguments was given with a NUL through
\* Command::arg, and success_or_panic ended the build naming position 2
C3_Witness ==
    /\ GivenWithNul = {2}
    /\ given[2].how = "arg"
    /\ ran.entry = "success_or_panic"
    /\ ~ran.attempted
    /\ ran.panic = [kind |-> "found_arg_number_with_nul", number |-> 2]

\* C3 as stated: whichever way the argument was given and whichever call
\* runs the command, no spawn is attempted and the panic identifies the
\* argument by its exact value or by its 1-based position
C3_AsStated ==
    (GivenWithNul # {} /\ Ended) =>
        /\ ~ran.attempted
        /\ \/ /\ ran.panic.kind = "found_arg_with_nul"
              /\ \E i \in GivenWithNul : ran.panic.arg = given[i].arg
           \/ /\ ran.panic.kind = "found_arg_number_with_nul"
              /\ ran.panic.number \in GivenWithNul

\* the runs of the probe binary that started
ProbeRuns ==
    SelectSeq(procs, LAMBDA p : /\ p.step = "check_chtype_size"
                                /\ p.via = "output"
                                /\ p.st.t # "err")

\* what cargo received that is not a line build.rs or a crate composed: the
\* text forwarded from the probe, piece after piece
RECURSIVE RawOf(_)
RawOf(lines) ==
    IF lines = <<>> THEN <<>>
    ELSE (IF Head(lines).k = "print" THEN Head(lines).raw ELSE <<>>)
         \o RawOf(Tail(lines))

Forwarded == RawOf(out)

\* how many times a line occurs in a text
Occurrences(text, line) ==
    Cardinality({i \in 0..(Len(text) - Len(line)) :
                    SubSeq(text, i + 1, i + Len(line)) = line})

\* C4: nothing is forwarded before the probe has run. Once it has, with a
\* chtype of 32 or 64 bits: the probe exited with 0; the wide_chtype signal
\* is forwarded not at all for 32 bits and exactly once for 64; the mouse_v1
\* signal is forwarded (once) if and only if NCURSES_MOUSE_VERSION is defined
\* and is 1 (0 stands for "not defined"); and the text forwarded is made of
\* these signal lines and nothing else.
C4_FeatureSignals ==
    /\ ProbeRuns = <<>> => Forwarded = <<>>
    /\ (ProbeRuns # <<>> /\ world.chtype_bits \in {32, 64}) =>
           LET wide == Occurrences(Forwarded, WideChtypeLine)
               mouse == Occurrences(Forwarded, MouseV1Line)
           IN  /\ Len(ProbeRuns) = 1
               /\ ProbeRuns[1].st = Exited(0)
               /\ wide = IF world.chtype_bits = 64 THEN 1 ELSE 0
               /\ mouse = IF world.mouse_version = 1 THEN 1 ELSE 0
               /\ Len(Forwarded) = wide * Len(WideChtypeLine) + mouse * Len(MouseV1Line)

\* C4 happens: a build with a 64-bit chtype and mouse version 1 ended, both
\* signals forwarded
C4_Witness ==
    /\ pc = "done"
    /\ world.chtype_bits = 64
    /\ world.mouse_version = 1
    /\ Forwarded = WideChtypeLine \o MouseV1Line

\* C5 as stated: with a chtype that is neither 32 nor 64 bits wide the build
\* ends at the probe step, and main never gets past it to gen_rs or build_wrap
C5_AsStated ==
    world.chtype_bits \notin {32, 64} =>
        /\ ~Past("check_chtype_size")
        /\ \A k \in 1..Len(procs) :
               procs[k].step \notin {"genconstants", "genmenuconstants"}

\* C6: once gen_rs has returned, the file it generated holds exactly the
\* bytes its generator wrote to stdout: all of them, in their order,
\* unchanged, and nothing of what the file held before.
C6_GeneratedIsStdout ==
    /\ Past("gen_rs_core") =>
           generated["raw_constants.rs"] = world.gen["genconstants"].stdout
    /\ Past("gen_rs_menu") =>
           generated["menu_constants.rs"] = world.gen["genmenuconstants"].stdout

\* C6 happens: both files were left by an earlier build, the generators
\* printed unsorted lines with blanks and bytes that are no text, and the
\* build ended with exactly that in the files
C6_Witness ==
    /\ pc = "done"
    /\ world.stale # <<>>
    /\ world.stale["raw_constants.rs"] # <<>>
    /\ generated["raw_constants.rs"] = <<32, 98, 10, 10, 97, 32, 10>>
    /\ generated["menu_constants.rs"] = <<255, 10>>

\* the names of the primary list, as the configuration declares them
DeclaredNcurses == NcursesLibNames(world.IS_WIDE)

LastNcurses == DeclaredNcurses[Len(DeclaredNcurses)]

\* pkg-config answers for no name at all
NoMetadata == \A n \in DOMAIN world.pkg : world.pkg[n] = None

\* the value of NCURSES_RS_RUSTC_LINK_LIB, if it is set
Override == world.env["NCURSES_RS_RUSTC_LINK_LIB"]

\* the linker directives printed for a name, by whoever printed them
Directives(name) ==
    SelectSeq(out, LAMBDA l : l.k = "rustc-link-lib" /\ l.v = name)

\* the warnings build.rs printed about the name of the ncurses library
NameWarnings ==
    SelectSeq(out, LAMBDA l : /\ l.by = "build.rs"
                              /\ l.k = "warning"
                              /\ \A i \in 1..Len(DeclaredTinfo) :
                                     l.v # "Found tinfo fallback '" \o DeclaredTinfo[i] \o "'")

\* the compilations of the two generators that were reached
GenCompilations ==
    SelectSeq(procs, LAMBDA p : /\ p.step \in {"genconstants", "genmenuconstants"}
                                /\ p.via = "success_or_panic")

\* the library name a compilation was given after -l
LinkedName(p) == p.args[(CHOOSE i \in 1..Len(p.args) : p.args[i] = <<"-l">>) + 1]

\* the positions of the names of the ncurses library found that contain
\* "curses"
WithCurses ==
    {i \in 1..Len(ncurses_lib[1].libs) :
        \E at \in 0..(Len(Utf8[ncurses_lib[1].libs[i]]) - 6) :
            SubSeq(Utf8[ncurses_lib[1].libs[i]], at + 1, at + 6) = <<99, 117, 114, 115, 101, 115>>}

\* C7: when pkg-config answers for no name and NCURSES_RS_RUSTC_LINK_LIB is
\* not set, the name get_ncurses_lib_name returned is the last of the primary
\* list, build.rs has warned that it uses the fallback name, and from then on
\* to the end of the run stdout holds exactly one linker directive for it.
C7_FallbackName ==
    (NoMetadata /\ Override = None /\ Past("get_ncurses_lib_name")) =>
        /\ lib_name = LastNcurses
        /\ NameWarnings = <<Line("build.rs", "warning",
                                  "Using fallback lib name '" \o LastNcurses \o "'")>>
        /\ Len(Directives(LastNcurses)) = 1

\* C7 happens: a build without pkg-config and without the override ended
C7_Witness ==
    /\ NoMetadata
    /\ Override = None
    /\ pc = "done"
    /\ lib_name = LastNcurses
    /\ Len(Directives(lib_name)) = 1

\* C8: when NCURSES_RS_RUSTC_LINK_LIB is not set and pkg-config found the
\* ncurses library, the name returned is the first of the library's names
\* that contains "curses", wherever it stands among them; if none contains
\* it, build.rs warns and the name is the last of the primary list. The
\* generators are compiled with that name.
C8_NameWithCurses ==
    (Override = None /\ ncurses_lib # None /\ Past("get_ncurses_lib_name")) =>
        /\ IF WithCurses # {}
           THEN /\ lib_name = ncurses_lib[1].libs[Least(WithCurses)]
                /\ NameWarnings = <<>>
           ELSE /\ lib_name = LastNcurses
                /\ Len(NameWarnings) = 1
        /\ \A k \in 1..Len(GenCompilations) :
               LinkedName(GenCompilations[k]) = <<lib_name>>

\* C8 happens: the library's first name is a terminfo name, its second and
\* third contain "curses", and the build ended with the second as the name
C8_Witness ==
    /\ Override = None
    /\ ncurses_lib # None
    /\ pc = "done"
    /\ WithCurses = {2, 3}
    /\ lib_name = ncurses_lib[1].libs[2]
    /\ Len(GenCompilations) = 2

C10_AsStated ==
    Past("get_ncurses_lib_name") =>
        ((\E i \in 1..Len(out) : /\ out[i].by = "pkg_config"
                                  /\ out[i].k = "rustc-link-lib"
                                  /\ out[i].v = lib_name)
         => ~\E j \in 1..Len(out) : /\ out[j].by = "build.rs"
                                     /\ out[j].k = "rustc-link-lib"
                                     /\ out[j].v = lib_name)

\* the find_library calls made for a list of names
ProbesOf(names) == SelectSeq(probes, LAMBDA p : p.names = names)

\* the linker directives build.rs itself printed for the names of a list
OwnDirectives(names) ==
    SelectSeq(out, LAMBDA l : /\ l.by = "build.rs"
                              /\ l.k = "rustc-link-lib"
                              /\ \E i \in 1..Len(names) : l.v = names[i])

\* the link trials made for a name of a list
TrialsOf(names) ==
    SelectSeq(Trials, LAMBDA p : \E i \in 1..Len(names) : p.args[5] = <<names[i]>>)

\* what C11 says of one extension module, whose block is the step `step`
ExtensionModule(enabled, names, step) ==
    /\ TrialsOf(names) = <<>>
    /\ ~enabled => ProbesOf(names) = <<>> /\ OwnDirectives(names) = <<>>
    /\ ~Past(step) => ProbesOf(names) = <<>> /\ OwnDirectives(names) = <<>>
    /\ (enabled /\ Past(step)) =>
           /\ Len(ProbesOf(names)) = 1
           /\ IF Accepted(names) # {}
              THEN OwnDirectives(names) = <<>>
              ELSE OwnDirectives(names)
                       = <<Line("build.rs", "rustc-link-lib", names[Len(names)])>>

\* C11: for menu and for panel: a module the configuration disables is
\* never probed and build.rs prints no linker directive for any of its names;
\* an enabled module is probed once, and then build.rs itself prints no
\* directive for it if pkg-config resolved it, and exactly one, naming the
\* last name of the module's list, if it did not; no link trial is ever made
\* for a name of the module.
C11_ExtensionModules ==
    /\ ExtensionModule(world.feature_menu, MenuLibNames(world.IS_WIDE), "find_menu")
    /\ ExtensionModule(world.feature_panel, PanelLibNames(world.IS_WIDE), "find_panel")

\* C11 happens: with menu enabled and unresolved and panel disabled the
\* build ended, the one directive of build.rs for them being menu's last name
C11_Witness ==
    /\ pc = "done"
    /\ world.feature_menu
    /\ ~world.feature_panel
    /\ Accepted(MenuLibNames(world.IS_WIDE)) = {}
    /\ OwnDirectives(MenuLibNames(world.IS_WIDE) \o PanelLibNames(world.IS_WIDE))
           = <<Line("build.rs", "rustc-link-lib",
                    MenuLibNames(world.IS_WIDE)[Len(MenuLibNames(world.IS_WIDE))])>>

\* the link search paths of the library pkg-config resolved the primary list
\* to (none if it resolved it to nothing)
PrimaryLinkPaths ==
    IF Accepted(DeclaredNcurses) = {} THEN <<>>
    ELSE world.pkg[DeclaredNcurses[Least(Accepted(DeclaredNcurses))]][1].link_paths

\* the diagnostics build.rs printed about a terminfo fallback
TinfoDiagnostics ==
    SelectSeq(out, LAMBDA l : /\ l.by = "build.rs"
                              /\ l.k = "warning"
                              /\ \E i \in 1..Len(DeclaredTinfo) :
                                     l.v = "Found tinfo fallback '" \o DeclaredTinfo[i] \o "'")

\* the binaries the link trials build
TrialBinaries ==
    {<<world.env["OUT_DIR"][1], "/", "try_link_with_", DeclaredTinfo[i]>> :
        i \in 1..Len(DeclaredTinfo)}

\* C12: link trials are made if and only if the find_library call for the
\* terminfo list returned None (none is made when it returned a library; at
\* least one has been made once the loop is over when it returned None).
\* Every trial is the compiler run through status_or_panic with, after
\* "-l <name>", one "-L <path>" pair for each link search path of the primary
\* library pkg-config resolved, in their order, and nothing else (no pair at
\* all when the primary library is unresolved). No process ever runs a binary
\* a trial built. Once the loop is over, if a trial's link step succeeded
\* build.rs has printed exactly one linker directive for a terminfo name, for
\* that trial's name, and exactly one diagnostic, naming it; if none did it
\* has printed neither.
C12_LinkTrials ==
    /\ Len(Trials) > 0 =>
           /\ Len(ProbesOf(DeclaredTinfo)) = 1
           /\ ProbesOf(DeclaredTinfo)[1].lib = <<>>
           /\ Accepted(DeclaredTinfo) = {}
    /\ (Past("try_link") /\ Accepted(DeclaredTinfo) = {}) => Len(Trials) > 0
    /\ \A k \in 1..Len(Trials) :
           /\ Trials[k].via = "status_or_panic"
           /\ Trials[k].program = <<"cc">>
           /\ SubSeq(Trials[k].args, 4, 5) = <<<<"-l">>, <<DeclaredTinfo[k]>>>>
           /\ Len(Trials[k].args) = 5 + 2 * Len(PrimaryLinkPaths)
           /\ \A i \in 1..Len(PrimaryLinkPaths) :
                  /\ Trials[k].args[4 + 2 * i] = <<"-L">>
                  /\ Trials[k].args[5 + 2 * i] = <<PrimaryLinkPaths[i]>>
    /\ \A k \in 1..Len(procs) : procs[k].program \notin TrialBinaries
    /\ Past("try_link") =>
           IF \E k \in 1..Len(Trials) : Trials[k].st = [t |-> "exit", code |-> 0, reason |-> ""]
           THEN LET k == CHOOSE k \in 1..Len(Trials) :
                             Trials[k].st = [t |-> "exit", code |-> 0, reason |-> ""]
                IN  /\ TinfoDirectives
                           = <<Line("build.rs", "rustc-link-lib", DeclaredTinfo[k])>>
                    /\ TinfoDiagnostics
                           = <<Line("build.rs", "warning",
                                    "Found tinfo fallback '" \o DeclaredTinfo[k] \o "'")>>
           ELSE TinfoDirectives = <<>> /\ TinfoDiagnostics = <<>>

\* C12 happens: the primary library was resolved with a link search path,
\* the terminfo list was not, the third trial linked with that path after its
\* name, and the build ended with one directive and one diagnostic for it
C12_Witness ==
    /\ pc = "done"
    /\ PrimaryLinkPaths = <<"/usr/lib">>
    /\ Len(Trials) = 3
    /\ Trials[3].st.code = 0
    /\ SubSeq(Trials[3].args, 4, 7) = <<<<"-l">>, <<"tinfo">>, <<"-L">>, <<"/usr/lib">>>>
    /\ Len(TinfoDirectives) = 1
    /\ Len(TinfoDiagnostics) = 1

\* every terminfo name was tried, each link step started and none succeeded
NoTinfoLinks ==
    /\ Len(Trials) = Len(DeclaredTinfo)
    /\ \A k \in 1..Len(Trials) :
           /\ Trials[k].attempted
           /\ Trials[k].st.t = "exit"
           /\ Trials[k].st.code # 0

\* C13: a link step that exits with a status other than 0 is never what
\* ends the build: no panic in the loop of trials is the compiler's failure.
\* And when every terminfo name has been tried, each link step having
\* started and exited with a status other than 0, build.rs has printed no
\* linker directive and no fallback diagnostic for a terminfo name, and
\* main is past the loop, at the determination of the primary name or a later
\* step, unless the last try_link could not delete the source file it had
\* written (the one panic of try_link that is left once the compiler has
\* run).
C13_NoLinkIsNotFatal ==
    /\ pc = "try_link" => panic.kind # "compiler_failed"
    /\ NoTinfoLinks =>
           /\ TinfoDirectives = <<>>
           /\ TinfoDiagnostics = <<>>
           /\ IF pc = "try_link"
              THEN panic.kind = "cannot_delete"
              ELSE Past("try_link")
           /\ (Past("try_link") /\ ~Past("get_ncurses_lib_name")) =>
                  panic = [kind |-> "none"]

\* C13 happens: none of three terminfo names linked, and the build went on
\* through every later step to its end, both generators compiled
C13_Witness ==
    /\ NoTinfoLinks
    /\ Len(Trials) = 3
    /\ pc = "done"
    /\ Len(GenCompilations) = 2
    /\ TinfoDirectives = <<>>

\* the step of main a process belongs to
StepOf(p) ==
    CASE p.step = "genconstants" -> "gen_rs_core"
      [] p.step = "genmenuconstants" -> "gen_rs_menu"
      [] OTHER -> p.step

\* the positions in procs of the compilations made through success_or_panic
\* (those of the probe and of the generators) that did not succeed
FailedCompilations ==
    {k \in 1..Len(procs) :
        /\ procs[k].via = "success_or_panic"
        /\ procs[k].st # [t |-> "exit", code |-> 0, reason |-> ""]}

\* a generated file is as the build found it
AsFound(file) ==
    IF file \in DOMAIN world.stale
    THEN file \in DOMAIN generated /\ generated[file] = world.stale[file]
    ELSE file \notin DOMAIN generated

\* the file a generator's invocation writes
FileOf(p) ==
    IF p.step = "genconstants" THEN "raw_constants.rs" ELSE "menu_constants.rs"

\* what holds in every state once a compilation has failed
CompilationFailed ==
    \A k \in FailedCompilations :
        /\ k = Len(procs)
        /\ pc = StepOf(procs[k])
        /\ panic.kind = (IF procs[k].st.t = "none" THEN "failed_to_run"
                         ELSE "compiler_failed")
        /\ IF procs[k].step = "check_chtype_size"
           THEN generated = world.stale /\ RawOf(out) = <<>>
           ELSE AsFound(FileOf(procs[k]))

\* C14: in check_chtype_size and in each gen_rs call, a compiler that
\* cannot be started, exits with a status other than 0 or is killed by a
\* signal ends the build there: the failed compilation is the last process
\* the build ever has run (the binary is not executed, the compilation is not
\* made again), the build has panicked with the failure (the failure to run,
\* or the compiler's) and main stays at that step, the probe has forwarded
\* nothing, the file the generator's invocation writes is as the build found
\* it (absent, or with what it held), and no step is ever taken once a panic
\* has been raised.
C14_CompilerFailureIsFatal ==
    /\ []CompilationFailed
    /\ [][panic = [kind |-> "none"]]_vars

\* C14 happens: the first generator had been run and its file written when
\* the compiler of the second was killed by a signal; the file of the second
\* is the stale one an earlier build left
C14_Witness ==
    /\ pc = "gen_rs_menu"
    /\ Len(procs) > 0
    /\ procs[Len(procs)].step = "genmenuconstants"
    /\ procs[Len(procs)].via = "success_or_panic"
    /\ procs[Len(procs)].st.t = "signal"
    /\ panic.kind = "compiler_failed"
    /\ world.stale # <<>>
    /\ generated["menu_constants.rs"] = world.stale["menu_constants.rs"]
    /\ generated["raw_constants.rs"] # world.stale["raw_constants.rs"]

\* the positions in procs of the runs of a generator's binary that failed:
\* it could not be started, exited with a status other than 0, or was killed
FailedGeneratorRuns ==
    {k \in 1..Len(procs) :
        /\ procs[k].via = "output"
        /\ procs[k].step \in {"genconstants", "genmenuconstants"}
        /\ procs[k].st # [t |-> "exit", code |-> 0, reason |-> ""]}

\* C15 as stated: a generator's binary that fails when it is executed ends
\* the build at that gen_rs call, the file of the call being as the build
\* found it
C15_AsStated ==
    \A k \in FailedGeneratorRuns :
        /\ panic # [kind |-> "none"]
        /\ pc = StepOf(procs[k])
        /\ AsFound(FileOf(procs[k]))

\* C16: when success_or_panic has run a command that started: if the
\* process exited with a code N other than 0, the call panicked with the
\* compiler-failed message (the one with the remediation text) saying "with
\* exit code" N, a message with no operating-system reason in it; if the
\* process was killed by a signal, it panicked with the same message saying
\* it was terminated by a signal; if the process exited with 0, the call did
\* not panic and returned that status.
C16_ExitCodeMessage ==
    (ran.entry = "success_or_panic" /\ ran.attempted /\ ran.st.t # "none") =>
        CASE ran.st.t = "exit" /\ ran.st.code # 0 ->
                 /\ ran.panic = [kind |-> "compiler_failed", how |-> "with exit code",
                                 code |-> ran.st.code]
                 /\ "reason" \notin DOMAIN ran.panic
          [] ran.st.t = "signal" ->
                 /\ ran.panic.kind = "compiler_failed"
                 /\ ran.panic.how = "was terminated by a signal"
                 /\ "reason" \notin DOMAIN ran.panic
          [] OTHER ->
                 /\ ran.panic = [kind |-> "none"]
                 /\ ran.st = [t |-> "exit", code |-> 0, reason |-> ""]

\* C16 happens: a command with an argument was started by success_or_panic,
\* exited with 43, and the panic says "with exit code" 43
C16_Witness ==
    /\ ran.entry = "success_or_panic"
    /\ Len(given) > 0
    /\ ran.attempted
    /\ ran.st = [t |-> "exit", code |-> 43, reason |-> ""]
    /\ ran.panic = [kind |-> "compiler_failed", how |-> "with exit code", code |-> 43]

\* the positions in procs of the commands run through the trait that were
\* started (a spawn was attempted)
Started == {k \in 1..Len(procs) : procs[k].via # "output" /\ procs[k].attempted}

\* C17 (amended): every command started through success_or_panic (the
\* compilation of the probe and those of the two generators) had its command
\* line written to stderr before it was started; status_or_panic writes
\* nothing, so every link trial, which calls it directly, was started without
\* its command line having been logged.
C17_LoggedBySuccessOrPanic ==
    \A k \in Started :
        /\ procs[k].via \in {"success_or_panic", "status_or_panic"}
        /\ procs[k].logged <=> procs[k].via = "success_or_panic"
        /\ procs[k].via = "success_or_panic" <=>
               procs[k].step \in {"check_chtype_size", "genconstants", "genmenuconstants"}
        /\ procs[k].via = "status_or_panic" <=> procs[k].step = "try_link"

\* C17 happens: a build that made three link trials, none logged, and
\* compiled the probe and both generators, each logged, has ended
C17_Witness ==
    /\ pc = "done"
    /\ Len(Trials) = 3
    /\ \A k \in 1..3 : Trials[k].attempted /\ ~Trials[k].logged
    /\ Len(GenCompilations) = 2
    /\ \A k \in 1..2 : GenCompilations[k].attempted /\ GenCompilations[k].logged
    /\ Cardinality(Started) = 6

\* C17 as stated: every command started through the trait, by either of
\* its two entry points, had its command line logged before it was started
C17_AsStated ==
    \A k \in Started : procs[k].logged

\* the start of the command was attempted and the operating system refused
CouldNotStart == ran.attempted /\ ran.st.t = "none"

\* the argument values that are not valid text
NotText == {<<255>>, <<109, 255, 97>>}

\* the digits of upper-case hexadecimal, "0123456789ABCDEF"
UpperHex == <<48, 49, 50, 51, 52, 53, 54, 55, 56, 57, 65, 66, 67, 68, 69, 70>>

\* the bytes of an argument from the i-th on, each byte of 128 and above
\* as \xHH and the others as they are
RECURSIVE EscapedFrom(_, _)
EscapedFrom(arg, i) ==
    IF i > Len(arg) THEN <<>>
    ELSE (IF arg[i] < 128 THEN <<arg[i]>>
          ELSE <<92, 120, UpperHex[(arg[i] \div 16) + 1], UpperHex[(arg[i] % 16) + 1]>>)
         \o EscapedFrom(arg, i + 1)

\* how an argument the command holds is expected in a message: a value
\* that is valid text as it is, one that is not with its bytes escaped
Escaped(arg) == IF arg \in NotText THEN EscapedFrom(arg, 1) ELSE arg

\* the arguments from the i-th on, a quote, a blank and a quote between two
RECURSIVE JoinedFrom(_, _)
JoinedFrom(args, i) ==
    IF i > Len(args) THEN <<>>
    ELSE (IF i = 1 THEN <<>> ELSE <<34, 32, 34>>) \o Escaped(args[i])
         \o JoinedFrom(args, i + 1)

\* the argument list as a message shows it, between double quotes
Quoted(args) == <<34>> \o JoinedFrom(args, 1) \o <<34>>

\* C18: when the start of a command was attempted and refused, by
\* status_or_panic or by success_or_panic, and the program is valid text, the
\* call panicked with the failed-to-run message: the program, the number of
\* arguments, the arguments quoted and escaped (a byte that is no text as
\* \xHH), and the reason the operating system gave. When the program is not
\* valid text, the panic is that the executable is not a valid string, and
\* carries the program: from status_or_panic once the start was refused, from
\* success_or_panic in any case (before any start).
C18_CannotStartMessage ==
    /\ (CouldNotStart /\ IsUtf8(current.program)) =>
           ran.panic = [kind |-> "failed_to_run",
                        program |-> current.program,
                        how_many_args |-> Len(current.args),
                        formatted_args |-> Quoted(current.args),
                        reason |-> "No such file or directory (os error 2)"]
    /\ (~IsUtf8(current.program)
        /\ (CouldNotStart \/ ran.entry = "success_or_panic")) =>
           ran.panic = [kind |-> "executable_not_valid_string",
                        program |-> current.program]

\* C18 happens: success_or_panic could not start "sh" given a heart and the
\* byte FF, and panicked with 2 arguments shown as "<heart>" "\xFF" and the
\* reason of the operating system
C18_Witness ==
    /\ ran.entry = "success_or_panic"
    /\ CouldNotStart
    /\ current.program = <<115, 104>>
    /\ current.args = <<<<226, 153, 165>>, <<255>>>>
    /\ ran.panic.kind = "failed_to_run"
    /\ ran.panic.how_many_args = 2
    /\ ran.panic.formatted_args
           = <<34, 226, 153, 165, 34, 32, 34, 92, 120, 70, 70, 34>>
    /\ ran.panic.reason = "No such file or directory (os error 2)"

\* C19: when status_or_panic has run a command that started, it did not
\* panic, whatever the process did: it returned the status of the process,
\* an exit with 0, an exit with another code, or a termination by a signal,
\* and wrote nothing.
C19_StatusIsAValue ==
    (ran.entry = "status_or_panic" /\ ran.attempted /\ ran.st.t # "none") =>
        /\ ran.panic = [kind |-> "none"]
        /\ ran.st \in {[t |-> "exit", code |-> 0, reason |-> ""],
                       [t |-> "exit", code |-> 43, reason |-> ""],
                       [t |-> "signal", code |-> -1, reason |-> ""]}
        /\ ran.logged = <<>>

\* C19 happens: status_or_panic ran a command with an argument that exited
\* with 43, and returned that status without a panic
C19_Witness ==
    /\ ran.entry = "status_or_panic"
    /\ Len(given) > 0
    /\ ran.attempted
    /\ ran.st = [t |-> "exit", code |-> 43, reason |-> ""]
    /\ ran.panic = [kind |-> "none"]

\* the positions at which the command holds the replacement text
HoldsReplacement ==
    {i \in 1..Len(current.args) :
        current.args[i] = <<60,115,116,114,105,110,103,45,119,105,116,104,45,110,117,108,62>>}

\* assert_no_nul_in_args was reached: called on its own, or in the chain of
\* success_or_panic, which comes to it once the program was shown
AssertReached ==
    \/ ran.entry = "assert_no_nul_in_args"
    \/ ran.entry = "success_or_panic" /\ IsUtf8(current.program)

\* what holds in every state assert_no_nul_in_args was reached in
AssertedNoNul ==
    AssertReached =>
        /\ HoldsReplacement = HeldAsReplacement
        /\ IF HoldsReplacement # {}
           THEN /\ ran.panic = [kind |-> "found_arg_number_with_nul",
                                number |-> Least(HoldsReplacement)]
                /\ ~ran.attempted
           ELSE /\ ran.panic.kind # "found_arg_number_with_nul"
                /\ ran.entry = "assert_no_nul_in_args" => ran.panic = [kind |-> "none"]
                /\ ran.entry = "success_or_panic" => ran.attempted

\* C20: assert_no_nul_in_args panics if and only if the command holds an
\* argument equal to "<string-with-nul>", and the panic names the 1-based
\* position of the first such argument; with no such argument it does not
\* panic (in success_or_panic, the command goes on to be started), and in
\* either case the call leaves the command as it was. The arguments held as
\* that text are those given with a NUL through Command::arg and those given
\* as that very text, by whichever call: the latter are rejected too.
C20_AssertNoNulInArgs ==
    /\ []AssertedNoNul
    /\ [][ran'.entry \in {"assert_no_nul_in_args", "success_or_panic"}
              => current' = current]_vars

\* C20 happens: "a" and then the text "<string-with-nul>" itself were given
\* through arg_checked, no argument having a NUL, and assert_no_nul_in_args
\* panicked naming position 2
C20_Witness ==
    /\ ran.entry = "assert_no_nul_in_args"
    /\ Len(given) = 2
    /\ GivenWithNul = {}
    /\ given[1].arg = <<97>>
    /\ given[2].how = "arg_checked"
    /\ HoldsReplacement = {2}
    /\ ran.panic = [kind |-> "found_arg_number_with_nul", number |-> 2]

\* what the command holds for the i-th argument given: the replacement text
\* for an argument given with a NUL (Command::arg stores that), the argument
\* otherwise
HeldFor(i) ==
    IF \E j \in 1..Len(given[i].arg) : given[i].arg[j] = 0
    THEN <<60,115,116,114,105,110,103,45,119,105,116,104,45,110,117,108,62>>
    ELSE given[i].arg

\* the tuple get_what_will_run is expected to return for the command
ExpectedWillRun ==
    [program |-> current.program,
     how_many_args |-> Len(given),
     formatted_args |-> Quoted([i \in 1..Len(given) |-> HeldFor(i)])]

\* what holds in every state of a command that was run and whose program is
\* valid text
WhatWillRun ==
    (ran.entry \in {"status_or_panic", "success_or_panic"} /\ IsUtf8(current.program)) =>
        /\ Len(current.args) = Len(given)
        /\ ran.entry = "success_or_panic" =>
               ran.logged = <<[kind |-> "next_attempting",
                               program |-> ExpectedWillRun.program,
                               how_many_args |-> ExpectedWillRun.how_many_args,
                               formatted_args |-> ExpectedWillRun.formatted_args]>>
        /\ ran.panic.kind = "failed_to_run" =>
               /\ ran.panic.program = ExpectedWillRun.program
               /\ ran.panic.how_many_args = ExpectedWillRun.how_many_args
               /\ ran.panic.formatted_args = ExpectedWillRun.formatted_args

\* C21: the tuple get_what_will_run returns, as show_what_will_run writes
\* it and as the panic of status_or_panic carries it, is the program, the
\* number of arguments that were added to the command, and the arguments the
\* command holds in the order they were added (for an argument added with a
\* NUL, the replacement text Command::arg stored), each as it is when it is
\* valid UTF-8 and otherwise with its ASCII bytes as they are and every other
\* byte as \xHH in upper-case hexadecimal, with '" "' between two and one
\* pair of double quotes around all; and the step that calls it leaves the
\* command as it was.
C21_WhatWillRun ==
    /\ []WhatWillRun
    /\ [][ran'.entry \in {"status_or_panic", "success_or_panic"}
              => current' = current]_vars

\* C21 happens: success_or_panic logged a command of two arguments, the
\* heart and "m\xFFa", as "<heart>" "m\xFFa" with the byte FF escaped
C21_Witness ==
    /\ ran.entry = "success_or_panic"
    /\ current.program = <<115, 104>>
    /\ Len(given) = 2
    /\ given[1].arg = <<226, 153, 165>>
    /\ given[2].arg = <<109, 255, 97>>
    /\ Len(ran.logged) = 1
    /\ ran.logged[1].how_many_args = 2
    /\ ran.logged[1].formatted_args
           = <<34, 226, 153, 165, 34, 32, 34, 109, 92, 120, 70, 70, 97, 34>>

\* the keep-artifacts mode: DEBUG is set, to something other than "false"
DebugMode == world.env["DEBUG"] # <<>> /\ world.env["DEBUG"] # <<"false">>

\* the source and the binary of the k-th link trial
TrialSource(k) == <<world.env["OUT_DIR"][1], "/", "try_link_with_", DeclaredTinfo[k], ".c">>
TrialBinary(k) == <<world.env["OUT_DIR"][1], "/", "try_link_with_", DeclaredTinfo[k]>>

\* the source and the binary of the feature probe
ProbeSource == <<world.env["OUT_DIR"][1], "/", "chtype_size.c">>
ProbeBinary == <<world.env["OUT_DIR"][1], "/", "chtype_size">>

\* the trials whose try_link has returned: the loop has gone past them
Returned == {k \in 1..Len(Trials) : k < each \/ Past("try_link")}

\* what holds of the scratch directory in every state
ArtifactsCleaned ==
    /\ \A k \in Returned :
           IF DebugMode
           THEN /\ TrialSource(k) \in scratch
                /\ Trials[k].st.code = 0 => TrialBinary(k) \in scratch
           ELSE TrialSource(k) \notin scratch /\ TrialBinary(k) \notin scratch
    /\ Past("check_chtype_size") =>
           IF DebugMode
           THEN ProbeSource \in scratch /\ ProbeBinary \in scratch
           ELSE ProbeSource \notin scratch /\ ProbeBinary \notin scratch

\* C22: outside the keep-artifacts mode, once a link trial has returned
\* neither its source nor its binary is in the scratch directory, and once
\* the feature probe has returned neither its source nor its binary is; in
\* the keep-artifacts mode the source of every trial that returned, the
\* binary of every trial that linked, and the source and the binary of the
\* probe are there, and no step removes a file from the scratch directory;
\* in either mode no step removes a generated constants file.
C22_CleanupPolicy ==
    /\ []ArtifactsCleaned
    /\ [][DebugMode => scratch \subseteq scratch']_vars
    /\ [][DOMAIN generated \subseteq DOMAIN generated']_vars

\* C22 happens: with DEBUG set to "false" a build whose third link trial
\* linked has ended, the scratch directory holding nothing and both
\* generated files being there
C22_Witness ==
    /\ pc = "done"
    /\ world.env["DEBUG"] = <<"false">>
    /\ Len(Trials) = 3
    /\ Trials[3].st.code = 0
    /\ scratch = {}
    /\ DOMAIN generated = {"raw_constants.rs", "menu_constants.rs"}

\* the positions in procs of the failures the build is to end at: a
\* compilation, or the run of a binary the build compiled (the feature probe,
\* a generator), that could not be started, exited with a status other than
\* 0 or was killed by a signal. A link trial is not among them.
FatalFailures ==
    {k \in 1..Len(procs) :
        /\ procs[k].via \in {"success_or_panic", "output"}
        /\ procs[k].st # [t |-> "exit", code |-> 0, reason |-> ""]}

\* C23 as stated: the run reaches its end only without a panic, and once a
\* fatal failure has occurred the build has panicked, no command was
\* started after the one that failed, and main never reaches its end
C23_AsStated ==
    /\ pc = "done" => panic = [kind |-> "none"]
    /\ \A k \in FatalFailures :
           /\ k = Len(procs)
           /\ panic # [kind |-> "none"]
           /\ pc # "done"

\* the lists find_library was called for, in the order of the calls
ProbedLists == [k \in 1..Len(probes) |-> probes[k].names]

\* the step of each process the build ran, in the order they were run
ProcSteps == [k \in 1..Len(procs) |-> procs[k].step]

\* the positions in stdout of a line of build.rs
At(k, v) == {i \in 1..Len(out) : out[i].by = "build.rs" /\ out[i].k = k /\ out[i].v = v}

\* the positions in stdout of what the feature probe forwarded
ForwardedAt == {i \in 1..Len(out) : out[i].k = "print"}

\* the positions in stdout of the directives build.rs printed for a terminfo
\* name that is not also the primary name's
TinfoDirectivesAt ==
    {i \in 1..Len(out) : /\ out[i].by = "build.rs"
                         /\ out[i].k = "rustc-link-lib"
                         /\ out[i].v # lib_name
                         /\ \E n \in 1..Len(DeclaredTinfo) : out[i].v = DeclaredTinfo[n]}

\* every position of S is before every position of T
Before(S, T) == \A i \in S : \A j \in T : i < j

\* what holds of a run that has reached its end
RanInOrder ==
    pc = "done" =>
        /\ panic = [kind |-> "none"]
        /\ ProbedLists
               = <<DeclaredNcurses>>
                 \o (IF world.feature_menu THEN <<MenuLibNames(world.IS_WIDE)>> ELSE <<>>)
                 \o (IF world.feature_panel THEN <<PanelLibNames(world.IS_WIDE)>> ELSE <<>>)
                 \o <<DeclaredTinfo>>
        /\ ProcSteps
               = [k \in 1..Len(Trials) |-> "try_link"]
                 \o <<"check_chtype_size", "check_chtype_size", "genconstants",
                      "genconstants", "genmenuconstants", "genmenuconstants">>
        /\ Len(Trials) <= Len(DeclaredTinfo)
        /\ \A k \in 1..Len(Trials) : Trials[k].args[5] = <<DeclaredTinfo[k]>>
        /\ Cardinality(At("rerun-if-env-changed", "PKG_CONFIG_PATH")) = 1
        /\ Cardinality(At("rerun-if-changed", "src/genconstants.c")) = 1
        /\ Cardinality(At("rerun-if-changed", "src/menu/genconstants.c")) = 1
        /\ Cardinality(At("rerun-if-changed", "src/wrap.c")) = 1
        /\ Cardinality(At("rustc-flags", "-ltinfo")) <= 1
        /\ Before(At("rerun-if-env-changed", "PKG_CONFIG_PATH"),
                  At("rustc-link-lib", lib_name))
        /\ Before(TinfoDirectivesAt, At("rustc-link-lib", lib_name))
        /\ Before(At("rustc-link-lib", lib_name), At("rustc-flags", "-ltinfo"))
        /\ Before(At("rustc-flags", "-ltinfo"), ForwardedAt)
        /\ Before(At("rustc-link-lib", lib_name) \cup ForwardedAt,
                  At("rerun-if-changed", "src/genconstants.c"))
        /\ Before(At("rerun-if-changed", "src/genconstants.c"),
                  At("rerun-if-changed", "src/menu/genconstants.c"))
        /\ Before(At("rerun-if-changed", "src/menu/genconstants.c"),
                  At("rerun-if-changed", "src/wrap.c"))

\* C24: a run that reaches its end has made the find_library calls for the
\* primary list, the menu list (if enabled), the panel list (if enabled) and
\* the terminfo list, once each and in this order; has run the link trials
\* (one per terminfo name at most, in their order), then the compilation and
\* the run of the feature probe, of the core generator and of the menu
\* generator, once each and in this order; and has printed, once each and in
\* this order, the signals of the start of main, the terminfo fallback's
\* directive, the primary name's directive (when build.rs prints one), the
\* supplementary flags, what the probe forwarded, and the signals of the core
\* generator, of the menu generator and of the support archive. And no step
\* ever takes main back: every step leaves main where it is (a turn of the
\* loop of trials, or a panic) or further on.
C24_StepsInOrder ==
    /\ []RanInOrder
    /\ [][StepNumber(pc') >= StepNumber(pc)]_vars
    /\ [][(pc # "try_link" /\ panic' = [kind |-> "none"])
              => StepNumber(pc') > StepNumber(pc)]_vars

\* C24 happens: a run with menu and panel enabled, three link trials and
\* the supplementary flags set has reached its end, four lists probed and
\* nine processes run
C24_Witness ==
    /\ pc = "done"
    /\ Len(ProbedLists) = 4
    /\ Len(Trials) = 3
    /\ Len(procs) = 9
    /\ Cardinality(At("rustc-flags", "-ltinfo")) = 1
    /\ ForwardedAt # {}

\* ---------------------------------------------------------------------------
\* The supplementary linker flags (main, 172-178)

\* what the environment holds for NCURSES_RS_RUSTC_FLAGS
FlagsHeld == world.env["NCURSES_RS_RUSTC_FLAGS"]

\* the positions in stdout of the cargo:rustc-flags lines, whoever printed them
FlagsAt == {i \in 1..Len(out) : out[i].k = "rustc-flags"}

\* the feature probe has started a process
ProbeStarted == \E k \in 1..Len(procs) : procs[k].step = "check_chtype_size"

\* C25 as stated: the flags line is printed if and only if the variable is set
C25_AsStated == Past("rustc_flags") => (FlagsHeld # <<>> <=> FlagsAt # {})

\* stdout holds no flags line before main's step of lines 174-176, and after
\* it one line with the variable's text, or none
FlagsPrinted ==
    /\ ~Past("rustc_flags") => FlagsAt = {}
    /\ Past("rustc_flags") =>
          IF FlagsHeld # <<>> /\ FlagsHeld # NotUnicode
          THEN /\ Cardinality(FlagsAt) = 1
               /\ \A i \in FlagsAt : out[i] = Line("build.rs", "rustc-flags", FlagsHeld[1])
          ELSE FlagsAt = {}
    /\ Before(At("rustc-link-lib", lib_name), FlagsAt)
    /\ Before(FlagsAt, ForwardedAt)
    /\ Before(FlagsAt, {i \in 1..Len(out) : out[i].k = "rerun-if-changed"})

\* C25: the cargo:rustc-flags line is printed if and only if
\* NCURSES_RS_RUSTC_FLAGS is set to a value that is valid Unicode; its payload
\* is then the value as it is, it is printed once, by the step that follows
\* get_ncurses_lib_name (the primary name is settled and never changes
\* afterwards) and before the feature probe starts any process or forwards
\* any line.
C25_FlagsOnceBetween ==
    /\ []FlagsPrinted
    /\ [][FlagsAt' # FlagsAt =>
              /\ pc = "rustc_flags" /\ pc' = "check_chtype_size"
              /\ ~ProbeStarted
              /\ ForwardedAt = {}]_vars
    /\ [][Past("get_ncurses_lib_name") => lib_name' = lib_name]_vars

\* a completed run that printed the flags, and whose probe forwarded its lines
C25_Witness ==
    /\ pc = "done"
    /\ FlagsHeld = <<"-ltinfo">>
    /\ Cardinality(FlagsAt) = 1
    /\ ForwardedAt # {}
    /\ \A i \in FlagsAt : \A j \in ForwardedAt : i < j

\* ---------------------------------------------------------------------------
\* A transient file that cannot be deleted (try_link 267-286,
\* check_chtype_size 459-469)

\* the build has ended at a file it could not delete
DeleteFailed == panic.kind = "cannot_delete"

\* what holds in every state of the files that could not be deleted
DeletionIsFatal ==
    /\ DeleteFailed =>
          /\ ~DebugMode
          /\ panic.path \in scratch
          /\ pc \in {"try_link", "check_chtype_size"}
          /\ pc = "try_link" =>
                /\ Trials # <<>>
                /\ \/ panic.path = TrialSource(Len(Trials))
                   \/ /\ panic.path = TrialBinary(Len(Trials))
                      /\ Trials[Len(Trials)].st = [t |-> "exit", code |-> 0, reason |-> ""]
          /\ pc = "check_chtype_size" => panic.path \in {ProbeSource, ProbeBinary}
    /\ (~DebugMode /\ panic = [kind |-> "none"]) => scratch = {}
    /\ (~DebugMode /\ pc = "try_link" /\ panic = [kind |-> "none"]) =>
          \A fault \in {"delete_bin", "delete_src"} :
              LET r == try_link(DeclaredTinfo[each], ncurses_lib, fault, scratch)
              IN  IF fault = "delete_bin" /\ each \notin Links
                  THEN r.panic = [kind |-> "none"] /\ ~r.ret
                  ELSE r.panic.kind = "cannot_delete"
    /\ (~DebugMode /\ pc = "check_chtype_size" /\ panic = [kind |-> "none"]) =>
          \A fault \in {"delete_bin", "delete_src"} :
              check_chtype_size(ncurses_lib, fault, scratch).panic.kind = "cannot_delete"

\* C26: outside the keep-artifacts mode a transient file (the source of a
\* link trial, the binary of a trial that linked, the source or the binary of
\* the feature probe) that cannot be deleted ends the build with a panic that
\* names it, and no step follows; a step that returned left no such file
\* behind. After a trial that did not link the binary is not deleted: a
\* binary that cannot be deleted is no panic there, and a panic over a file
\* that cannot be deleted names the binary of a trial only if that trial
\* linked.
C26_DeletionIsFatal ==
    /\ []DeletionIsFatal
    /\ [][~DeleteFailed]_vars

\* C26 happens: two trials did not link and the loop went on, the third
\* linked and its binary could not be deleted
C26_Witness ==
    /\ DeleteFailed
    /\ pc = "try_link"
    /\ Len(Trials) = 3
    /\ Trials[1].st.code = 1
    /\ Trials[2].st.code = 1
    /\ Trials[3].st.code = 0
    /\ panic.path = TrialBinary(3)
    /\ scratch = {TrialSource(3), TrialBinary(3)}

\* ---------------------------------------------------------------------------
\* A terminfo name in two linker directives (main 154-167)

\* the positions in stdout of the linker directives pkg-config printed for
\* the constituents of the primary library
ConstituentsAt ==
    {j \in 1..Len(out) : /\ out[j].by = "pkg_config"
                         /\ out[j].k = "rustc-link-lib"
                         /\ ncurses_lib # <<>>
                         /\ \E n \in 1..Len(ncurses_lib[1].libs) :
                                out[j].v = ncurses_lib[1].libs[n]}

\* the positions in stdout of the linker directives the link-trial fallback
\* printed
FallbackAt ==
    {i \in 1..Len(out) : /\ out[i].by = "build.rs"
                         /\ out[i].k = "rustc-link-lib"
                         /\ Trials # <<>>
                         /\ out[i].v = DeclaredTinfo[Len(Trials)]
                         /\ Trials[Len(Trials)].st = [t |-> "exit", code |-> 0, reason |-> ""]}

\* C27 as stated: the link-trial fallback prints no linker directive for a
\* name that pkg-config has printed one for as a constituent of the primary
\* library, so that no terminfo name is in two linker directives of one run
C27_AsStated ==
    \A i \in FallbackAt : \A j \in ConstituentsAt : out[j].v # out[i].v

\* ---------------------------------------------------------------------------
\* What the generators are linked with (main 172-194, gen_rs 304-315)

\* the positions of -l among the arguments of a compilation
LinkFlagsAt(p) == {i \in 1..Len(p.args) : p.args[i] = <<"-l">>}

\* the terminfo name the link trials chose, if they chose one
FallbackChosen ==
    IF Trials # <<>> /\ Trials[Len(Trials)].st = [t |-> "exit", code |-> 0, reason |-> ""]
    THEN <<DeclaredTinfo[Len(Trials)]>>
    ELSE <<>>

\* what holds in every state of the generators' compilations
GeneratorsLinked ==
    /\ \A k \in 1..Len(GenCompilations) :
          /\ Cardinality(LinkFlagsAt(GenCompilations[k])) = 1
          /\ \A i \in LinkFlagsAt(GenCompilations[k]) :
                 /\ i < Len(GenCompilations[k].args)
                 /\ GenCompilations[k].args[i + 1] = <<lib_name>>
          /\ FallbackChosen # <<>> =>
                 \A i \in 1..Len(GenCompilations[k].args) :
                     GenCompilations[k].args[i] # FallbackChosen
    /\ (pc \in {"gen_rs_core", "gen_rs_menu", "build_wrap", "done"} \/ GenCompilations # <<>>) =>
          /\ lib_name # ""
          /\ Directives(lib_name) # <<>>
          /\ \E i \in 1..Len(out) :
                 /\ out[i].k = "rustc-link-lib" /\ out[i].v = lib_name
                 /\ out[i].by \in {"pkg_config", "build.rs"}
                 /\ \A j \in 1..Len(out) : out[j].k = "rerun-if-changed" => i < j

\* C28: each compilation of a generator has one -l, followed by the name
\* get_ncurses_lib_name returned, and no argument that is the terminfo name
\* the link trials chose; get_ncurses_lib_name is the only step that sets
\* the name; and from the moment the first generator is to start, stdout
\* holds a linker directive for that name, printed by pkg_config or by
\* build.rs before any line of a generator.
C28_GeneratorsLinked ==
    /\ []GeneratorsLinked
    /\ [][lib_name' # lib_name =>
              pc = "get_ncurses_lib_name" /\ pc' = "rustc_flags" /\ lib_name = ""]_vars

\* C28 happens: the link trials chose the third terminfo name, the build
\* ended, and both generators were compiled with the name pkg-config gave
C28_Witness ==
    /\ pc = "done"
    /\ Len(Trials) = 3
    /\ FallbackChosen = <<DeclaredTinfo[3]>>
    /\ Len(GenCompilations) = 2
    /\ LinkedName(GenCompilations[1]) = <<lib_name>>
    /\ LinkedName(GenCompilations[2]) = <<lib_name>>
    /\ ncurses_lib # <<>>
    /\ lib_name = ncurses_lib[1].libs[1]

====
